---- MODULE Spec2Model ----
(***************************************************************************)
(* A model of lib/cache/lvmcache.c: the PV-id, VG-id and VG-name indexes,  *)
(* the vginfo alias chains, the info <-> vginfo membership and the lists   *)
(* of duplicate devices.  Every C function is an operator from a state     *)
(* record to a state record; the actions apply them to the variables.     *)
(*                                                                         *)
(* Heap objects are slots of a pool.  A freed slot is marked not live; a   *)
(* pointer that is left behind to it dangles.  An allocation takes the     *)
(* lowest free slot, so a dangling pointer may come to alias a later       *)
(* object; an operation that reads through a dangling pointer sets fault   *)
(* and the program stops there.                                            *)
(*                                                                         *)
(* The lock registry (_lock_hash, _vgs_locked, the order check), the       *)
(* life of a cache within a command (lvmcache_destroy, lvmcache_init) and  *)
(* the saved VGs of clvmd are modelled in the same way.                    *)
(***************************************************************************)
EXTENDS Integers, Sequences, FiniteSets, TLC

\* ------------------------------------------------------------------ bounds
MaxInfos == 2
MaxFound == 2
\* _vgs_locked stays within -MaxLocked..MaxLocked
MaxLocked == 2
\* the device-size seqno is followed up to MaxBumps increments
MaxBumps == 2
\* the seqnos of the VGs handed to lvmcache_save_vg
MaxSeqno == 2
\* the invalidated VGs a saved_vg keeps on saved_vg_to_free
MaxToFree == 2
\* the VGs import_vg_from_config_tree builds for lvmcache_save_vg
MaxRefs == 3

\* --------------------------------------------------------------- the inputs
Devs == {"devA", "devB", "devC"}
Pvids == {"P1", "P2"}
VgNames == {"vg0", "vg1"}
VgIds == {"G1", "G2"}
NoDev == "nodev"
NoPvid == ""
NoVgid == ""
NoHost == "nohost"
EmptyHost == ""
ThisHost == "here"
OtherHost == "elsewhere"
NULL == 0

FMT_TEXT_ORPHAN_VG_NAME == "#orphans_lvm2"
VG_ORPHANS == "#orphans"
VG_GLOBAL == "#global"
OrphanNames == {FMT_TEXT_ORPHAN_VG_NAME, VG_ORPHANS}
AllNames == VgNames \cup {FMT_TEXT_ORPHAN_VG_NAME}
AllVgids == VgIds \cup {FMT_TEXT_ORPHAN_VG_NAME}
\* the metadata a VG of one seqno can hold: a precommit that was reverted and
\* the one that follows it carry the same seqno
Texts == {"t0", "t1"}
VgRefs == 1..MaxRefs

EXPORTED_VG == "EXPORTED_VG"
CACHE_LOCKED == 2

is_orphan_vg(vgname) == vgname \in OrphanNames
is_global_vg(vgname) == vgname = VG_GLOBAL

InfoIds == 1..MaxInfos
\* a vginfo lives only while an info is attached to it, but for one orphan
VginfoIds == 1..(MaxInfos + 1)

\* device major numbers, by the subsystem that owns them
MajorOf == [d \in Devs |-> CASE d = "devA" -> "sd" [] d = "devB" -> "md" [] OTHER -> "dm"]

\* ---------------------------------------------------------------- the state
VARIABLES
    dev_pvid,              \* dev->pvid of every device
    info,                  \* the lvmcache_info slots
    vginfo,                \* the lvmcache_vginfo slots
    pvid_hash,             \* _pvid_hash
    vgid_hash,             \* _vgid_hash
    vgname_hash,           \* _vgname_hash
    vginfos,               \* _vginfos
    found_duplicate_devs,  \* _found_duplicate_devs
    unused_duplicate_devs, \* _unused_duplicate_devs
    found_duplicate_pvs,   \* _found_duplicate_pvs
    scanning_in_progress,  \* _scanning_in_progress
    scanned,               \* the devices label_scan has read in the scan in progress
    lock_hash,             \* _lock_hash: the names that are locked
    cmd_unused_duplicate_devs, \* cmd->unused_duplicate_devs
    initialized,           \* the hash tables exist: lvmcache_init ran, lvmcache_destroy did not
    vgs_locked,            \* _vgs_locked
    vg_global_lock_held,   \* _vg_global_lock_held
    suppress_lock_ordering, \* _suppress_lock_ordering
    dev_size_seqno,        \* the device-size seqno dev_size_seqno_inc() bumps
    saved_vg_hash,         \* _saved_vg_hash: the saved_vg of every VG id
    vg_refs,               \* the VGs built for lvmcache_save_vg so far
    vg_released,           \* how often release_vg freed each of them
    fault                  \* freed memory was read

vars == <<dev_pvid, info, vginfo, pvid_hash, vgid_hash, vgname_hash, vginfos,
          found_duplicate_devs, unused_duplicate_devs, found_duplicate_pvs,
          scanning_in_progress, scanned, lock_hash, cmd_unused_duplicate_devs,
          initialized, vgs_locked, vg_global_lock_held, suppress_lock_ordering,
          dev_size_seqno, saved_vg_hash, vg_refs, vg_released, fault>>

NoInfo == [live |-> FALSE, dev |-> NoDev, vginfo |-> NULL, status |-> 0, mdas |-> 0,
           device_size |-> 0]
\* a saved VG: ref tells the objects apart, text is its metadata; NoVg is the
\* NULL pointer
NoVg == [name |-> "", seqno |-> 0, text |-> "", saved_in_clvmd |-> 0, ref |-> 0]
\* struct saved_vg; present is FALSE while the hash holds none for the VG id
NoSavedVg == [present |-> FALSE, saved_vg_committed |-> 0, saved_vg_old |-> NoVg,
              saved_vg_new |-> NoVg, saved_vg_to_free |-> <<>>]

NoVginfo == [live |-> FALSE, vgname |-> "", vgid |-> NoVgid, status |-> {},
             next |-> NULL, infos |-> {}, creation_host |-> NoHost,
             lock_type |-> NoHost, system_id |-> NoHost,
             seqno |-> 0, mda_size |-> 0, mda_checksum |-> 0,
             scan_summary_mismatch |-> 0, independent_metadata_location |-> 0]

St == [dev_pvid |-> dev_pvid, info |-> info, vginfo |-> vginfo,
       pvid_hash |-> pvid_hash, vgid_hash |-> vgid_hash,
       vgname_hash |-> vgname_hash, vginfos |-> vginfos,
       found |-> found_duplicate_devs, unused |-> unused_duplicate_devs,
       found_duplicate_pvs |-> found_duplicate_pvs,
       scanning |-> scanning_in_progress, lock_hash |-> lock_hash,
       cmd_unused |-> cmd_unused_duplicate_devs,
       initialized |-> initialized, vgs_locked |-> vgs_locked,
       vg_global_lock_held |-> vg_global_lock_held,
       suppress |-> suppress_lock_ordering,
       dev_size_seqno |-> dev_size_seqno, saved |-> saved_vg_hash,
       vg_refs |-> vg_refs, released |-> vg_released,
       fault |-> fault, oom |-> FALSE, ret |-> NULL]

Install(s) ==
    /\ dev_pvid' = s.dev_pvid
    /\ info' = s.info
    /\ vginfo' = s.vginfo
    /\ pvid_hash' = s.pvid_hash
    /\ vgid_hash' = s.vgid_hash
    /\ vgname_hash' = s.vgname_hash
    /\ vginfos' = s.vginfos
    /\ found_duplicate_devs' = s.found
    /\ unused_duplicate_devs' = s.unused
    /\ found_duplicate_pvs' = s.found_duplicate_pvs
    /\ scanning_in_progress' = s.scanning
    /\ lock_hash' = s.lock_hash
    /\ cmd_unused_duplicate_devs' = s.cmd_unused
    /\ initialized' = s.initialized
    /\ vgs_locked' = s.vgs_locked
    /\ vg_global_lock_held' = s.vg_global_lock_held
    /\ suppress_lock_ordering' = s.suppress
    /\ dev_size_seqno' = s.dev_size_seqno
    /\ saved_vg_hash' = s.saved
    /\ vg_refs' = s.vg_refs
    /\ vg_released' = s.released
    /\ fault' = s.fault

\* --------------------------------------------------------- lists and tables
InSeq(q, x) == \E k \in 1..Len(q) : q[k] = x
SeqSet(q) == {q[k] : k \in 1..Len(q)}

\* the entries of q that are in S, in the order of q
RECURSIVE SeqKeep(_, _)
SeqKeep(q, S) ==
    IF q = <<>> THEN <<>>
    ELSE (IF Head(q) \in S THEN <<Head(q)>> ELSE <<>>) \o SeqKeep(Tail(q), S)

SeqRemoveAll(q, x) == SeqKeep(q, SeqSet(q) \ {x})

\* dm_list_del of the first entry that holds x
SeqRemoveFirst(q, x) ==
    IF ~InSeq(q, x) THEN q
    ELSE LET k == CHOOSE j \in 1..Len(q) : q[j] = x /\ \A h \in 1..(j - 1) : q[h] # x
         IN  SubSeq(q, 1, k - 1) \o SubSeq(q, k + 1, Len(q))

\* dm_hash_lookup: a key that was never inserted finds nothing
hash_lookup(h, key) == IF key \in DOMAIN h THEN h[key] ELSE NULL

\* the lowest free slot
AllocInfo(s) == CHOOSE i \in InfoIds : ~s.info[i].live /\ \A j \in 1..(i - 1) : s.info[j].live
AllocVginfo(s) == CHOOSE v \in VginfoIds : ~s.vginfo[v].live /\ \A w \in 1..(v - 1) : s.vginfo[w].live
CanAllocInfo(s) == \E i \in InfoIds : ~s.info[i].live
CanAllocVginfo(s) == \E v \in VginfoIds : ~s.vginfo[v].live

\* a pointer to a freed lvmcache_info
Dangling(s, i) == i # NULL /\ ~s.info[i].live

\* ------------------------------------------------------------------ lookups
lvmcache_vginfo_from_vgid(s, vgid) == hash_lookup(s.vgid_hash, vgid)

\* the walk along vginfo->next for the first id that matches
RECURSIVE ChainFind(_, _, _)
ChainFind(s, v, vgid) ==
    IF v = NULL THEN NULL
    ELSE IF s.vginfo[v].vgid = vgid THEN v
    ELSE ChainFind(s, s.vginfo[v].next, vgid)

\* vgid = NoVgid stands for a call without a vgid
lvmcache_vginfo_from_vgname(s, vgname, vgid) ==
    LET primary == hash_lookup(s.vgname_hash, vgname)
    IN  IF primary = NULL THEN NULL
        ELSE IF vgid # NoVgid THEN ChainFind(s, primary, vgid)
        ELSE primary

\* the vginfos reached from v along next, v first
RECURSIVE Chain(_, _)
Chain(s, v) == IF v = NULL THEN <<>> ELSE <<v>> \o Chain(s, s.vginfo[v].next)

\* dev = NoDev stands for a call without a device
lvmcache_info_from_pvid(s, pvid, dev) ==
    LET i == hash_lookup(s.pvid_hash, pvid)
    IN  IF i = NULL THEN NULL
        ELSE IF dev # NoDev /\ s.info[i].dev # NoDev /\ s.info[i].dev # dev THEN NULL
        ELSE i

\* a variant that looks up the name as it is given
lvmcache_vgname_is_locked_plain(s, vgname) ==
    /\ s.initialized
    /\ vgname \in s.lock_hash

lvmcache_vgname_is_locked(s, vgname) ==
    /\ s.initialized
    /\ (IF is_orphan_vg(vgname) THEN VG_ORPHANS ELSE vgname) \in s.lock_hash

lvmcache_found_duplicate_pvs(s) == s.found_duplicate_pvs

_dev_in_device_list(dev, head) == InSeq(head, dev)

lvmcache_dev_is_unchosen_duplicate(s, dev) == _dev_in_device_list(dev, s.unused)

\* the names lvmcache_get_vgnames lists from _vginfos
lvmcache_get_vgnames(s, include_internal) ==
    SeqKeep([k \in 1..Len(s.vginfos) |-> s.vginfo[s.vginfos[k]].vgname],
            {n \in AllNames : include_internal \/ ~is_orphan_vg(n)})

\* ------------------------------------------------------ attach, detach, free
_update_cache_info_lock_state(st, locked) ==
    IF locked THEN (IF (st \div CACHE_LOCKED) % 2 = 1 THEN st ELSE st + CACHE_LOCKED)
    ELSE (IF (st \div CACHE_LOCKED) % 2 = 1 THEN st - CACHE_LOCKED ELSE st)

\* the loop over vginfo->infos, i counting down the slots
RECURSIVE LockInfos(_, _, _, _)
LockInfos(inf, members, locked, i) ==
    IF i = 0 THEN inf
    ELSE LockInfos(IF i \in members
                   THEN [inf EXCEPT ![i].status = _update_cache_info_lock_state(@, locked)]
                   ELSE inf,
                   members, locked, i - 1)

_update_cache_vginfo_lock_state(s, v, locked) ==
    [s EXCEPT !.info = LockInfos(@, s.vginfo[v].infos, locked, MaxInfos)]

_vginfo_attach_info(s, v, i) ==
    IF v = NULL THEN s
    ELSE [s EXCEPT !.info[i].vginfo = v,
                   !.vginfo[v].infos = @ \cup {i}]

\* dm_list_del takes the info off the list it is linked on
RECURSIVE UnlinkInfo(_, _, _)
UnlinkInfo(vg, i, v) ==
    IF v = 0 THEN vg
    ELSE UnlinkInfo([vg EXCEPT ![v].infos = @ \ {i}], i, v - 1)

\* a variant that forgets the dm_list_del
_vginfo_detach_info_linked(s, i) ==
    [s EXCEPT !.info[i].vginfo = NULL]

_vginfo_detach_info(s, i) ==
    [s EXCEPT !.vginfo = UnlinkInfo(@, i, MaxInfos + 1),
              !.info[i].vginfo = NULL]

\* the vginfo leaves the chain of its name: the name index takes the next one,
\* or the one before it on the chain skips it
UnchainVginfo(s, v, primary, chain) ==
    IF v = primary
    THEN [s EXCEPT !.vgname_hash[s.vginfo[v].vgname] = s.vginfo[v].next]
    ELSE IF \E k \in 1..Len(chain) : s.vginfo[chain[k]].next = v
         THEN [s EXCEPT !.vginfo[CHOOSE x \in SeqSet(chain) : s.vginfo[x].next = v].next =
                            s.vginfo[v].next]
         ELSE s

\* the vgid leaves the VG-id index when it leads to this vginfo
UnhashVgid(s, v) ==
    IF s.vginfo[v].vgid # NoVgid /\ lvmcache_vginfo_from_vgid(s, s.vginfo[v].vgid) = v
    THEN [s EXCEPT !.vgid_hash[s.vginfo[v].vgid] = NULL]
    ELSE s

_free_vginfo(s, v) ==
    [UnhashVgid(UnchainVginfo(s, v, lvmcache_vginfo_from_vgname(s, s.vginfo[v].vgname, NoVgid),
                              Chain(s, lvmcache_vginfo_from_vgname(s, s.vginfo[v].vgname, NoVgid))),
                v)
       EXCEPT !.vginfos = SeqRemoveAll(@, v),
              !.vginfo[v] = NoVginfo]

\* after the detach: a vginfo that is not an orphan and has no info left is freed
FreeIfEmpty(s, v) ==
    IF v = NULL \/ is_orphan_vg(s.vginfo[v].vgname) \/ s.vginfo[v].infos # {}
    THEN s
    ELSE _free_vginfo(s, v)

\* a variant that never frees the vginfo
_drop_vginfo_kept(s, i, v) ==
    IF i # NULL THEN _vginfo_detach_info(s, i) ELSE s

_drop_vginfo(s, i, v) ==
    FreeIfEmpty(IF i # NULL THEN _vginfo_detach_info(s, i) ELSE s, v)

lvmcache_del(s, i) ==
    LET pvid == s.dev_pvid[s.info[i].dev]
    IN  [_drop_vginfo(IF pvid # NoPvid THEN [s EXCEPT !.pvid_hash[pvid] = NULL] ELSE s,
                      i, s.info[i].vginfo)
           EXCEPT !.info[i] = NoInfo]

lvmcache_del_dev(s, dev) ==
    LET i == lvmcache_info_from_pvid(s, s.dev_pvid[dev], dev)
    IN  IF i # NULL THEN lvmcache_del(s, i) ELSE s

lvmcache_remove_unchosen_duplicate(s, dev) ==
    [s EXCEPT !.unused = SeqRemoveFirst(@, dev)]

\* ---------------------------------------------------------- update pipeline
_lvmcache_update_vgid(s, i, v, new_vgid) ==
    IF v = NULL \/ s.vginfo[v].vgid = new_vgid THEN [s EXCEPT !.ret = 1]
    ELSE LET old == s.vginfo[v].vgid
             s1 == IF old # NoVgid THEN [s EXCEPT !.vgid_hash[old] = NULL] ELSE s
         IN  [s1 EXCEPT !.vginfo[v].vgid = new_vgid,
                        !.vgid_hash[new_vgid] = v,
                        !.ret = 1]

\* a variant that looks at the exported flag only
use_new_exported(primary_status, primary_host, vgstatus, creation_host) ==
    IF EXPORTED_VG \notin primary_status /\ EXPORTED_VG \in vgstatus THEN FALSE
    ELSE IF EXPORTED_VG \in primary_status /\ EXPORTED_VG \notin vgstatus THEN TRUE
    ELSE FALSE

\* which of the two VGs of one name the name index holds
use_new(primary_status, primary_host, vgstatus, creation_host) ==
    IF EXPORTED_VG \notin primary_status /\ EXPORTED_VG \in vgstatus THEN FALSE
    ELSE IF EXPORTED_VG \in primary_status /\ EXPORTED_VG \notin vgstatus THEN TRUE
    ELSE IF primary_host # NoHost /\ primary_host = ThisHost THEN FALSE
    ELSE IF primary_host = NoHost /\ creation_host # NoHost THEN TRUE
    ELSE IF creation_host # NoHost /\ creation_host = ThisHost THEN TRUE
    ELSE FALSE

_insert_vginfo(s, new, vgid, vgstatus, creation_host, primary) ==
    IF primary # NULL
       /\ ~use_new(s.vginfo[primary].status, s.vginfo[primary].creation_host,
                   vgstatus, creation_host)
    THEN LET chain == Chain(s, primary)
             last_vginfo == chain[Len(chain)]
         IN  [s EXCEPT !.vginfo[last_vginfo].next = new]
    ELSE [s EXCEPT !.vgname_hash[s.vginfo[new].vgname] = new,
                   !.vginfo[new].next = primary]

\* a vginfo is made for the name, put in the name index and on _vginfos
AddVginfo(s, new, new_vgname, vgid, vgstatus, creation_host) ==
    [_insert_vginfo([s EXCEPT !.vginfo[new] = [NoVginfo EXCEPT !.live = TRUE,
                                                               !.vgname = new_vgname]],
                    new, vgid, vgstatus, creation_host,
                    lvmcache_vginfo_from_vgname(s, new_vgname, NoVgid))
       EXCEPT !.vginfos = IF is_orphan_vg(new_vgname) THEN Append(@, new) ELSE <<new>> \o @]

\* the info joins the vginfo, or without an info the vginfo takes the vgid; the
\* lock state of the name goes to the infos of the vginfo
JoinVginfo(s, i, v, new_vgname, vgid) ==
    [_update_cache_vginfo_lock_state(IF i # NULL THEN _vginfo_attach_info(s, v, i)
                                     ELSE _lvmcache_update_vgid(s, NULL, v, vgid),
                                     v, lvmcache_vgname_is_locked(s, new_vgname))
       EXCEPT !.ret = 1]

\* found is the vginfo of the name and id, NULL when there is none yet
FindOrAddVginfo(s, i, found, new_vgname, vgid, vgstatus, creation_host) ==
    IF found # NULL THEN JoinVginfo(s, i, found, new_vgname, vgid)
    ELSE IF ~CanAllocVginfo(s) THEN [s EXCEPT !.oom = TRUE]
    ELSE JoinVginfo(AddVginfo(s, AllocVginfo(s), new_vgname, vgid, vgstatus, creation_host),
                    i, AllocVginfo(s), new_vgname, vgid)

\* after the info has left its vginfo
EnterVginfo(s, i, new_vgname, vgid, vgstatus, creation_host) ==
    FindOrAddVginfo(s, i, lvmcache_vginfo_from_vgname(s, new_vgname, vgid),
                    new_vgname, vgid, vgstatus, creation_host)

_lvmcache_update_vgname(s, i, new_vgname, vgid, vgstatus, creation_host) ==
    IF i # NULL /\ s.info[i].vginfo # NULL /\ s.vginfo[s.info[i].vginfo].vgname = new_vgname
    THEN [s EXCEPT !.ret = 1]
    ELSE EnterVginfo(IF i # NULL THEN _drop_vginfo(s, i, s.info[i].vginfo) ELSE s,
                     i, new_vgname, vgid, vgstatus, creation_host)

_lvmcache_update_vgstatus(s, i, vgstatus, host, ltype, sysid) ==
    IF i = NULL \/ s.info[i].vginfo = NULL THEN [s EXCEPT !.ret = 1]
    ELSE LET v == s.info[i].vginfo
         IN  [s EXCEPT !.vginfo[v].status = vgstatus,
                       !.vginfo[v].creation_host = IF host = NoHost THEN @ ELSE host,
                       !.vginfo[v].lock_type = IF ltype = NoHost THEN @ ELSE ltype,
                       !.vginfo[v].system_id = IF sysid = NoHost THEN @ ELSE sysid,
                       !.ret = 1]

lvmcache_add_orphan_vginfo(s, vgname) ==
    _lvmcache_update_vgname(s, NULL, vgname, vgname, {}, EmptyHost)

mdas_empty_or_ignored(mdas) == mdas = 0

\* mdas of an info is 1 when one of its metadata areas is not ignored
lvmcache_add_mda(s, i, ignored) ==
    [s EXCEPT !.info[i].mdas = IF ignored THEN @ ELSE 1]

lvmcache_del_mdas(s, i) ==
    [s EXCEPT !.info[i].mdas = 0]

\* the checksum and size of the summary against those of the vginfo, then the status
UpdateChecksum(s, i, v, sm) ==
    IF s.vginfo[v].mda_size # 0
       /\ (s.vginfo[v].mda_size # sm.mda_size \/ s.vginfo[v].mda_checksum # sm.mda_checksum)
    THEN [s EXCEPT !.vginfo[v].scan_summary_mismatch = 1, !.ret = 1]
    ELSE _lvmcache_update_vgstatus(IF s.vginfo[v].mda_size = 0
                                   THEN [s EXCEPT !.vginfo[v].mda_checksum = sm.mda_checksum,
                                                  !.vginfo[v].mda_size = sm.mda_size]
                                   ELSE s,
                                   i, sm.vgstatus, sm.creation_host, sm.lock_type, sm.system_id)

\* a variant that takes the seqno of every summary
UpdateSeqno_last(s, i, v, sm) ==
    IF sm.seqno = 0 /\ sm.mda_size = 0 /\ sm.mda_checksum = 0 THEN [s EXCEPT !.ret = 1]
    ELSE IF v = NULL THEN [s EXCEPT !.ret = 1]
    ELSE UpdateChecksum([s EXCEPT !.vginfo[v].seqno = sm.seqno], i, v, sm)

\* the seqno of the summary against that of the vginfo v of the info
UpdateSeqno(s, i, v, sm) ==
    IF sm.seqno = 0 /\ sm.mda_size = 0 /\ sm.mda_checksum = 0 THEN [s EXCEPT !.ret = 1]
    ELSE IF v = NULL THEN [s EXCEPT !.ret = 1]
    ELSE IF s.vginfo[v].seqno # 0 /\ sm.seqno # s.vginfo[v].seqno
    THEN [s EXCEPT !.vginfo[v].scan_summary_mismatch = 1, !.ret = 1]
    ELSE UpdateChecksum(IF s.vginfo[v].seqno = 0 THEN [s EXCEPT !.vginfo[v].seqno = sm.seqno]
                        ELSE s,
                        i, v, sm)

\* after the name: the vgid, then the rest of the summary
UpdateVgidAndSummary(s, i, sm) ==
    UpdateSeqno(_lvmcache_update_vgid(s, i, s.info[i].vginfo, sm.vgid), i, s.info[i].vginfo, sm)

\* a variant that asks for no critical section
lvmcache_update_vgname_and_id_nocrit(s, i, sm, crit) ==
    IF is_orphan_vg(sm.vgname) /\ s.info[i].vginfo # NULL
       /\ mdas_empty_or_ignored(s.info[i].mdas)
       /\ ~is_orphan_vg(s.vginfo[s.info[i].vginfo].vgname)
    THEN [s EXCEPT !.ret = 1]
    ELSE UpdateVgidAndSummary(_lvmcache_update_vgname(s, i, sm.vgname, sm.vgid, sm.vgstatus,
                                                      sm.creation_host),
                              i, sm)

\* sm is the vgsummary; crit is what critical_section() answers
lvmcache_update_vgname_and_id(s, i, sm, crit) ==
    IF is_orphan_vg(sm.vgname) /\ s.info[i].vginfo # NULL
       /\ mdas_empty_or_ignored(s.info[i].mdas)
       /\ ~is_orphan_vg(s.vginfo[s.info[i].vginfo].vgname) /\ crit
    THEN [s EXCEPT !.ret = 1]
    ELSE UpdateVgidAndSummary(_lvmcache_update_vgname(s, i, sm.vgname, sm.vgid, sm.vgstatus,
                                                      sm.creation_host),
                              i, sm)

\* 1 when no vginfo has the id: the caller then reads the VG again
lvmcache_scan_mismatch(s, vgname, vgid) ==
    IF vgname = "" \/ vgid = NoVgid THEN 1
    ELSE IF lvmcache_vginfo_from_vgid(s, vgid) # NULL
    THEN s.vginfo[lvmcache_vginfo_from_vgid(s, vgid)].scan_summary_mismatch
    ELSE 1

\* the vgsummary lvmcache_add builds: all but name, id and status is zero
AddSummary(vgname, vgid, vgstatus) ==
    [vgname |-> vgname, vgid |-> vgid, vgstatus |-> vgstatus,
     creation_host |-> NoHost, lock_type |-> NoHost, system_id |-> NoHost,
     seqno |-> 0, mda_size |-> 0, mda_checksum |-> 0]

\* the info lvmcache_add works on: by pvid, else by dev->pvid, else none
AddLookup(s, pvid, dev) ==
    LET i1 == lvmcache_info_from_pvid(s, pvid, NoDev)
    IN  IF i1 # NULL THEN i1 ELSE lvmcache_info_from_pvid(s, s.dev_pvid[dev], NoDev)

_create_info(s, on_dev) ==
    LET i == AllocInfo(s)
    IN  [s EXCEPT !.info[i] = [NoInfo EXCEPT !.live = TRUE, !.dev = on_dev], !.ret = i]

\* lvmcache_add reads info->dev of the info it found
AddFaults(s, pvid, dev) == Dangling(s, AddLookup(s, pvid, dev))

\* a variant that does not set _found_duplicate_pvs
lvmcache_add_duplicate_unflagged(s, pvid, dev) ==
    [s EXCEPT !.dev_pvid[dev] = pvid,
              !.found = Append(@, dev),
              !.ret = NULL]

\* a variant that does not save the new device
lvmcache_add_duplicate_unsaved(s, pvid, dev) ==
    [s EXCEPT !.found_duplicate_pvs = TRUE,
              !.dev_pvid[dev] = pvid,
              !.ret = NULL]

\* the branch of lvmcache_add for an info that is on another device: the new
\* device takes the pvid and is saved on _found_duplicate_devs
lvmcache_add_duplicate(s, pvid, dev) ==
    [s EXCEPT !.found_duplicate_pvs = TRUE,
              !.dev_pvid[dev] = pvid,
              !.found = Append(@, dev),
              !.ret = NULL]

\* the _pvid_hash mapping of pvid to the info is added or updated
AddRekey(s, i, pvid) ==
    LET idev == s.info[i].dev
    IN  IF hash_lookup(s.pvid_hash, pvid) = i /\ s.dev_pvid[idev] = pvid
        THEN s
        ELSE [(IF s.dev_pvid[idev] # NoPvid
               THEN [s EXCEPT !.pvid_hash[s.dev_pvid[idev]] = NULL]
               ELSE s)
                EXCEPT !.dev_pvid[idev] = pvid, !.pvid_hash[pvid] = i]

\* the info is on dev: its pvid and its vginfo are brought up to date
AddUpdate(s, i, pvid, vgname, vgid, vgstatus, crit) ==
    [lvmcache_update_vgname_and_id(AddRekey(s, i, pvid), i,
                                   AddSummary(vgname, vgid, vgstatus), crit)
       EXCEPT !.ret = i]

\* existing is the info the lookup found, NULL when it found none
AddFound(s, existing, pvid, dev, vgname, vgid, vgstatus, crit) ==
    IF existing = NULL
    THEN (IF ~CanAllocInfo(s) THEN [s EXCEPT !.oom = TRUE]
          ELSE AddUpdate(_create_info(s, dev), AllocInfo(s), pvid, vgname, vgid, vgstatus, crit))
    ELSE IF s.info[existing].dev # dev THEN lvmcache_add_duplicate(s, pvid, dev)
    ELSE AddUpdate(s, existing, pvid, vgname, vgid, vgstatus, crit)

lvmcache_add(s, pvid, dev, vgname, vgid, vgstatus, crit) ==
    AddFound(s, AddLookup(s, pvid, dev), pvid, dev, vgname, vgid, vgstatus, crit)

\* --------------------------------------------- lvmcache_add out of memory
\* where an allocation or a dm_hash_insert of an add that creates its info
\* fails: _create_info, the insert into _pvid_hash, the allocation of the
\* vginfo, the insert into _vgname_hash, the insert into _vgid_hash
FailPoints == {"info", "pvid_hash", "vginfo", "vgname_hash", "vgid_hash"}

\* dm_hash_insert into _pvid_hash fails: lvmcache_add returns NULL at once
AddRekeyFailed(s, i, pvid) ==
    [(IF s.dev_pvid[s.info[i].dev] # NoPvid
      THEN [s EXCEPT !.pvid_hash[s.dev_pvid[s.info[i].dev]] = NULL]
      ELSE s)
       EXCEPT !.dev_pvid[s.info[i].dev] = pvid, !.ret = NULL]

\* dm_hash_insert into _vgid_hash fails
_lvmcache_update_vgid_failed(s, i, v, new_vgid) ==
    [(IF s.vginfo[v].vgid # NoVgid THEN [s EXCEPT !.vgid_hash[s.vginfo[v].vgid] = NULL] ELSE s)
       EXCEPT !.vginfo[v].vgid = new_vgid, !.ret = 0]

\* lvmcache_add after lvmcache_update_vgname_and_id returned 0 for the info
\* it created
AddUnwind(s, i, pvid) ==
    [s EXCEPT !.pvid_hash[pvid] = NULL,
              !.dev_pvid[s.info[i].dev] = NoPvid,
              !.info[i] = NoInfo,
              !.ret = NULL]

\* s3 is the state _lvmcache_update_vgname leaves; nothing fails when the
\* vginfo has the vgid already
AddFailVgid(s, s3, i, pvid, dev, vgname, vgid, vgstatus, crit) ==
    IF s3.oom THEN s3
    ELSE IF s3.vginfo[s3.info[i].vginfo].vgid = vgid
    THEN lvmcache_add(s, pvid, dev, vgname, vgid, vgstatus, crit)
    ELSE AddUnwind(_lvmcache_update_vgid_failed(s3, i, s3.info[i].vginfo, vgid), i, pvid)

\* dm_hash_insert into _vgname_hash fails in _insert_vginfo, after the primary
\* vginfo it would replace has left the hash; nothing fails when the new
\* vginfo goes to the end of the chain
AddFailVgname(s, s2, primary, i, pvid, dev, vgname, vgid, vgstatus, crit) ==
    IF primary # NULL /\ ~use_new(s2.vginfo[primary].status, s2.vginfo[primary].creation_host,
                                  vgstatus, NoHost)
    THEN lvmcache_add(s, pvid, dev, vgname, vgid, vgstatus, crit)
    ELSE AddUnwind(IF primary # NULL THEN [s2 EXCEPT !.vgname_hash[vgname] = NULL] ELSE s2,
                   i, pvid)

\* s2 is the state with the info in _pvid_hash; nothing fails when the vginfo
\* exists
AddFailVginfo(s, s2, i, pvid, dev, vgname, vgid, vgstatus, crit, at) ==
    IF lvmcache_vginfo_from_vgname(s2, vgname, vgid) # NULL
    THEN lvmcache_add(s, pvid, dev, vgname, vgid, vgstatus, crit)
    ELSE IF at = "vginfo" THEN AddUnwind(s2, i, pvid)
    ELSE AddFailVgname(s, s2, lvmcache_vginfo_from_vgname(s2, vgname, NoVgid),
                       i, pvid, dev, vgname, vgid, vgstatus, crit)

\* lvmcache_add for a PV and a device without info when the step at fails
lvmcache_add_failed(s, pvid, dev, vgname, vgid, vgstatus, crit, at) ==
    IF at = "info" THEN [s EXCEPT !.ret = NULL]
    ELSE IF at = "pvid_hash" THEN AddRekeyFailed(_create_info(s, dev), AllocInfo(s), pvid)
    ELSE IF at \in {"vginfo", "vgname_hash"}
    THEN AddFailVginfo(s, AddRekey(_create_info(s, dev), AllocInfo(s), pvid), AllocInfo(s),
                       pvid, dev, vgname, vgid, vgstatus, crit, at)
    ELSE AddFailVgid(s, _lvmcache_update_vgname(AddRekey(_create_info(s, dev), AllocInfo(s), pvid),
                                                AllocInfo(s), vgname, vgid, vgstatus, NoHost),
                     AllocInfo(s), pvid, dev, vgname, vgid, vgstatus, crit)

\* ------------------------------------------------------- duplicate resolver
md_major == "md"
dm_is_dm_major(major) == major = "dm"
dev_subsystem_part_major(dev) == MajorOf[dev] \in {"dm", "md", "drbd"}

\* a variant of the ladder without the rung that keeps dev1 when only dev2
\* was not chosen before
change_unordered(prev_unchosen1, prev_unchosen2, has_lv1, has_lv2, same_size1, same_size2, has_fs1, has_fs2, is_dm1, is_dm2, in_subsys1, in_subsys2) ==
    IF prev_unchosen1 /\ ~prev_unchosen2 THEN TRUE
    ELSE IF has_lv1 /\ ~has_lv2 THEN FALSE
    ELSE IF has_lv2 /\ ~has_lv1 THEN TRUE
    ELSE IF same_size1 /\ ~same_size2 THEN FALSE
    ELSE IF same_size2 /\ ~same_size1 THEN TRUE
    ELSE IF has_fs1 /\ ~has_fs2 THEN FALSE
    ELSE IF has_fs2 /\ ~has_fs1 THEN TRUE
    ELSE IF is_dm1 /\ ~is_dm2 THEN FALSE
    ELSE IF is_dm2 /\ ~is_dm1 THEN TRUE
    ELSE IF in_subsys1 /\ ~in_subsys2 THEN FALSE
    ELSE IF in_subsys2 /\ ~in_subsys1 THEN TRUE
    ELSE FALSE

\* the ladder: TRUE when dev2 replaces dev1
change(prev_unchosen1, prev_unchosen2, has_lv1, has_lv2, same_size1, same_size2, has_fs1, has_fs2, is_dm1, is_dm2, in_subsys1, in_subsys2) ==
    IF prev_unchosen1 /\ ~prev_unchosen2 THEN TRUE
    ELSE IF prev_unchosen2 /\ ~prev_unchosen1 THEN FALSE
    ELSE IF has_lv1 /\ ~has_lv2 THEN FALSE
    ELSE IF has_lv2 /\ ~has_lv1 THEN TRUE
    ELSE IF same_size1 /\ ~same_size2 THEN FALSE
    ELSE IF same_size2 /\ ~same_size1 THEN TRUE
    ELSE IF has_fs1 /\ ~has_fs2 THEN FALSE
    ELSE IF has_fs2 /\ ~has_fs1 THEN TRUE
    ELSE IF is_dm1 /\ ~is_dm2 THEN FALSE
    ELSE IF is_dm2 /\ ~is_dm1 THEN TRUE
    ELSE IF in_subsys1 /\ ~in_subsys2 THEN FALSE
    ELSE IF in_subsys2 /\ ~in_subsys1 THEN TRUE
    ELSE FALSE

\* one comparison of the loop: env is what the system answers about the devices
Prefer2(s, env, i, dev1, dev2) ==
    LET u1 == _dev_in_device_list(dev1, s.unused)
        u2 == _dev_in_device_list(dev2, s.unused)
        prev_unchosen1 == IF ~u1 /\ ~u2 THEN _dev_in_device_list(dev1, s.cmd_unused) ELSE u1
        prev_unchosen2 == IF ~u1 /\ ~u2 THEN _dev_in_device_list(dev2, s.cmd_unused) ELSE u2
        info_size == s.info[i].device_size \div 512
    IN  change(prev_unchosen1, prev_unchosen2,
               dev1 \in env.has_lv, dev2 \in env.has_lv,
               env.dev_size[dev1] = info_size, env.dev_size[dev2] = info_size,
               dev1 \in env.has_fs, dev2 \in env.has_fs,
               dm_is_dm_major(MajorOf[dev1]), dm_is_dm_major(MajorOf[dev2]),
               dev_subsystem_part_major(dev1), dev_subsystem_part_major(dev2))

\* the loop over altdevs: w.dev1 is the preferred device so far, w.alt the
\* position in altdevs of the entry it came from
RECURSIVE Compare(_, _, _, _, _, _)
Compare(s, env, i, altdevs, k, w) ==
    IF k > Len(altdevs) THEN w
    ELSE LET dev2 == altdevs[k]
         IN  IF w.dev1 = dev2 THEN Compare(s, env, i, altdevs, k + 1, w)
             ELSE IF Prefer2(s, env, i, w.dev1, dev2)
             THEN Compare(s, env, i, altdevs, k + 1, [dev1 |-> dev2, alt |-> k])
             ELSE Compare(s, env, i, altdevs, k + 1, w)

\* the outcome of one group: w.dev1 is the preferred device; when it is not the
\* device of the info, the info's device is to be dropped and w.dev1 read again
GroupResult(r, i, altdevs, rest, w) ==
    LET switch == w.dev1 # r.cache.info[i].dev
    IN  [cache |-> [r.cache EXCEPT !.found = rest],
         del |-> IF switch THEN Append(r.del, r.cache.info[i].dev) ELSE r.del,
         add |-> IF switch THEN Append(r.add, w.dev1) ELSE r.add,
         new_unused |-> r.new_unused \o
                        (IF switch
                         THEN SubSeq(altdevs, 1, w.alt - 1) \o SubSeq(altdevs, w.alt + 1, Len(altdevs))
                         ELSE altdevs)]

\* r: cache is the state, del and add are del_cache_devs and add_cache_devs,
\* new_unused the devices not chosen so far
RECURSIVE Resolve(_, _)
Resolve(r, env) ==
    IF r.cache.found = <<>>
    THEN [r EXCEPT !.cache.unused = r.new_unused]
    ELSE
    LET s == r.cache
        pvid == s.dev_pvid[s.found[1]]
        altdevs == SeqKeep(s.found, {d \in Devs : s.dev_pvid[d] = pvid})
        rest == SeqKeep(s.found, {d \in Devs : s.dev_pvid[d] # pvid})
        i == lvmcache_info_from_pvid(s, pvid, NoDev)
    IN  IF i = NULL THEN Resolve([r EXCEPT !.cache.found = rest], env)
        ELSE IF Dangling(s, i) THEN [r EXCEPT !.cache.fault = TRUE, !.cache.found = rest]
        ELSE Resolve(GroupResult(r, i, altdevs, rest,
                                 Compare(s, env, i, altdevs, 1,
                                         [dev1 |-> s.info[i].dev, alt |-> 1])),
                     env)

_choose_preferred_devs(s, env) ==
    Resolve([cache |-> s, del |-> <<>>, add |-> <<>>, new_unused |-> <<>>], env)

\* the md components among the unused duplicates are dropped from the list
_filter_duplicate_devs(s) ==
    LET reg(d) == lvmcache_info_from_pvid(s, s.dev_pvid[d], NoDev)
    IN  IF \E d \in SeqSet(s.unused) : reg(d) = NULL \/ Dangling(s, reg(d))
        THEN [s EXCEPT !.fault = TRUE]
        ELSE [s EXCEPT !.unused =
                  SeqKeep(@, {d \in SeqSet(s.unused) : MajorOf[s.info[reg(d)].dev] # md_major})]

\* ------------------------------------------------------------ the label scan
\* label_read: the reader hands what it reads on the device to lvmcache_add
\* and records the size the PV header states
SetDeviceSize(s, lb) ==
    IF s.oom \/ s.ret = NULL THEN s
    ELSE [s EXCEPT !.info[s.ret].device_size = lb.device_size]

label_read(s, dev, lb, crit) ==
    IF s.fault \/ s.oom THEN s
    ELSE IF AddFaults(s, lb.pvid, dev) THEN [s EXCEPT !.fault = TRUE]
    ELSE SetDeviceSize(lvmcache_add(s, lb.pvid, dev, lb.vgname, lb.vgid, {}, crit), lb)

\* lvmcache_label_scan drops the info of every device of del_cache_devs
RECURSIVE DropDevs(_, _)
DropDevs(s, q) ==
    IF q = <<>> \/ s.fault THEN s
    ELSE LET i == lvmcache_info_from_pvid(s, s.dev_pvid[Head(q)], NoDev)
         IN  IF i = NULL THEN DropDevs(s, Tail(q))
             ELSE IF Dangling(s, i) THEN [s EXCEPT !.fault = TRUE]
             ELSE DropDevs(lvmcache_del(s, i), Tail(q))

\* and reads every device of add_cache_devs again
RECURSIVE RereadDevs(_, _, _, _)
RereadDevs(s, q, lbs, crit) ==
    IF q = <<>> THEN s
    ELSE RereadDevs(label_read(s, Head(q), lbs[Head(q)], crit), Tail(q), lbs, crit)

\* lvmcache_label_scan up to the call of label_scan
label_scan_begin(s) ==
    [s EXCEPT !.scanning = TRUE, !.found = <<>>]

\* the dropped devices join _unused_duplicate_devs and the list is filtered
SpliceAndFilter(s, del) ==
    IF s.fault \/ s.oom THEN [s EXCEPT !.unused = @ \o del]
    ELSE _filter_duplicate_devs([s EXCEPT !.unused = @ \o del])

\* r is what _choose_preferred_devs returns
ApplyPreferred(r, lbs, crit) ==
    SpliceAndFilter(RereadDevs(DropDevs(r.cache, r.del), r.add, lbs, crit), r.del)

\* a variant that returns with the guard set
ScanDone_guarded(s) ==
    IF s.fault THEN s ELSE [s EXCEPT !.ret = 1]

ScanDone(s) ==
    IF s.fault THEN s ELSE [s EXCEPT !.scanning = FALSE, !.ret = 1]

\* the exit through out with r still 0
ScanFailed(s) ==
    IF s.fault THEN s ELSE [s EXCEPT !.scanning = FALSE, !.ret = 0]

\* ---------------------------------------------------------- the rescan of a VG
lvmcache_set_independent_location(s, vgname) ==
    IF lvmcache_vginfo_from_vgname(s, vgname, NoVgid) = NULL THEN s
    ELSE IF ~s.vginfo[lvmcache_vginfo_from_vgname(s, vgname, NoVgid)].live
    THEN [s EXCEPT !.fault = TRUE]
    ELSE [s EXCEPT !.vginfo[lvmcache_vginfo_from_vgname(s, vgname, NoVgid)]
                       .independent_metadata_location = 1]

\* lvmcache_del of every info of I
RECURSIVE RescanDel(_, _)
RescanDel(s, I) ==
    IF I = {} THEN s
    ELSE RescanDel(lvmcache_del(s, CHOOSE i \in I : \A j \in I : i <= j),
                   I \ {CHOOSE i \in I : \A j \in I : i <= j})

\* the orders in which the devices of the infos of the vginfo v stand on devs
RescanOrders(s, v) ==
    {q \in UNION {[1..n -> Devs] : n \in 0..MaxInfos} :
        /\ Len(q) = Cardinality(s.vginfo[v].infos)
        /\ SeqSet(q) = {s.info[i].dev : i \in s.vginfo[v].infos}}

\* the last lookup of lvmcache_label_rescan_vg
RescanFound(s, vgname, vgid) ==
    IF s.fault \/ s.oom THEN s
    ELSE [s EXCEPT !.ret = IF lvmcache_vginfo_from_vgname(s, vgname, vgid) = NULL THEN 0 ELSE 1]

\* lvmcache_label_rescan_vg of a command without lvmetad: devs is the list of
\* the devices of the VG, lbs what the devices hold when label_scan_devs
\* reads them
lvmcache_label_rescan_vg_at(s, v, vgname, vgid, devs, lbs, crit) ==
    IF v = NULL THEN [s EXCEPT !.ret = 0]
    ELSE IF ~s.vginfo[v].live THEN [s EXCEPT !.fault = TRUE]
    ELSE IF s.vginfo[v].independent_metadata_location # 0 THEN [s EXCEPT !.ret = 1]
    ELSE IF \E i \in s.vginfo[v].infos : ~s.info[i].live THEN [s EXCEPT !.fault = TRUE]
    ELSE RescanFound(RereadDevs(RescanDel(s, s.vginfo[v].infos), devs, lbs, crit),
                     vgname, vgid)

lvmcache_label_rescan_vg(s, vgname, vgid, devs, lbs, crit) ==
    lvmcache_label_rescan_vg_at(s, lvmcache_vginfo_from_vgname(s, vgname, vgid),
                                vgname, vgid, devs, lbs, crit)

\* lvmcache_label_scan from the return of label_scan; lbs is what the devices hold
label_scan_end(s, env, lbs, crit) ==
    ScanDone(IF s.found = <<>> THEN s
             ELSE ApplyPreferred(_choose_preferred_devs(s, env), lbs, crit))

\* the same when the scan of a format with independent metadata areas fails
label_scan_end_failed(s, env, lbs, crit) ==
    ScanFailed(IF s.found = <<>> THEN s
               ELSE ApplyPreferred(_choose_preferred_devs(s, env), lbs, crit))

\* the entry of lvmcache_label_scan: 0 at once while a scan is in progress and,
\* through out, when the command has no full filter
lvmcache_label_scan_entry(s, full_filter) ==
    IF s.scanning THEN [s EXCEPT !.ret = 0]
    ELSE IF ~full_filter THEN ScanFailed([s EXCEPT !.scanning = TRUE])
    ELSE label_scan_begin(s)

\* ---------------------------------------------------------- the lock registry
\* the names the callers lock
LockNames == {VG_GLOBAL, VG_ORPHANS, "vg0", "vg1"}
\* strcmp(a, b) < 0 on the names of the model: their place in byte order
ByteOrder == <<VG_GLOBAL, VG_ORPHANS, FMT_TEXT_ORPHAN_VG_NAME, "vg0", "vg1">>
strcmp_lt(a, b) ==
    \E i \in 1..Len(ByteOrder), j \in 1..Len(ByteOrder) :
        ByteOrder[i] = a /\ ByteOrder[j] = b /\ i < j

\* a variant that knows the byte order only
_vgname_order_correct_plain(vgname1, vgname2) ==
    strcmp_lt(vgname1, vgname2)

\* vgname2 comes after vgname1: VG_GLOBAL first, the orphan locks last
_vgname_order_correct(vgname1, vgname2) ==
    IF is_global_vg(vgname1) THEN TRUE
    ELSE IF is_global_vg(vgname2) THEN FALSE
    ELSE IF is_orphan_vg(vgname1) THEN FALSE
    ELSE IF is_orphan_vg(vgname2) THEN TRUE
    ELSE strcmp_lt(vgname1, vgname2)

lvmcache_lock_ordering(s, enable) ==
    [s EXCEPT !.suppress = IF enable THEN 0 ELSE 1]

\* TRUE is the return of 1: every name that is locked comes before vgname
lvmcache_verify_lock_order(s, vgname) ==
    IF s.suppress # 0 THEN TRUE
    ELSE IF ~s.initialized THEN TRUE
    ELSE \A vgname2 \in s.lock_hash : _vgname_order_correct(vgname2, vgname)

\* only the primary vginfo of the name is looked up
_update_cache_lock_state(s, vgname, locked) ==
    IF lvmcache_vginfo_from_vgname(s, vgname, NoVgid) = NULL THEN s
    ELSE IF ~s.vginfo[lvmcache_vginfo_from_vgname(s, vgname, NoVgid)].live
    THEN [s EXCEPT !.fault = TRUE]
    ELSE _update_cache_vginfo_lock_state(s, lvmcache_vginfo_from_vgname(s, vgname, NoVgid), locked)

\* a nested lock is logged and the name inserted again
lvmcache_lock_vgname(s, vgname) ==
    IF vgname # VG_GLOBAL
    THEN _update_cache_lock_state([s EXCEPT !.lock_hash = @ \cup {vgname},
                                            !.vgs_locked = @ + 1],
                                  vgname, TRUE)
    ELSE [s EXCEPT !.lock_hash = @ \cup {vgname}]

\* a variant that bumps the device-size seqno at every unlock of a VG
UnlockCount_every(s, vgname) ==
    IF vgname # VG_GLOBAL
    THEN [s EXCEPT !.lock_hash = @ \ {vgname},
                   !.vgs_locked = @ - 1,
                   !.dev_size_seqno = @ + 1]
    ELSE [s EXCEPT !.lock_hash = @ \ {vgname}]

\* the name is out of _lock_hash and _vgs_locked counted down; the device-size
\* seqno is bumped when the count comes to zero
UnlockCount(s, vgname) ==
    IF vgname # VG_GLOBAL
    THEN [s EXCEPT !.lock_hash = @ \ {vgname},
                   !.vgs_locked = @ - 1,
                   !.dev_size_seqno = IF s.vgs_locked - 1 = 0 THEN @ + 1 ELSE @]
    ELSE [s EXCEPT !.lock_hash = @ \ {vgname}]

\* an unlock of a name that is not locked is logged and goes on
lvmcache_unlock_vgname(s, vgname) ==
    UnlockCount(IF vgname # VG_GLOBAL THEN _update_cache_lock_state(s, vgname, FALSE) ELSE s,
                vgname)

lvmcache_vgs_locked(s) == s.vgs_locked

\* ------------------------------------------------- the release of saved VGs
\* release_vg of a VG whose saved_in_clvmd was cleared
release_vg(s, vg) ==
    IF vg = NoVg THEN s
    ELSE [s EXCEPT !.released[vg.ref] = @ + 1]

\* the walk over saved_vg_to_free
RECURSIVE ReleaseToFree(_, _)
ReleaseToFree(s, q) ==
    IF q = <<>> THEN s
    ELSE ReleaseToFree(release_vg(s, Head(q)), Tail(q))

FreeOld(s, vgid, free_old) ==
    IF ~free_old THEN s
    ELSE [ReleaseToFree(release_vg(s, s.saved[vgid].saved_vg_old),
                        s.saved[vgid].saved_vg_to_free)
            EXCEPT !.saved[vgid].saved_vg_old = NoVg,
                   !.saved[vgid].saved_vg_to_free = <<>>]

FreeNew(s, vgid, free_new) ==
    IF ~free_new THEN s
    ELSE [release_vg(s, s.saved[vgid].saved_vg_new)
            EXCEPT !.saved[vgid].saved_vg_new = NoVg]

\* a variant that frees the old VG whatever is asked
_saved_vg_free_both(s, vgid, free_old, free_new) ==
    FreeNew(FreeOld(s, vgid, TRUE), vgid, free_new)

_saved_vg_free(s, vgid, free_old, free_new) ==
    FreeNew(FreeOld(s, vgid, free_old), vgid, free_new)

_destroy_saved_vg(s, vgid) == _saved_vg_free(s, vgid, TRUE, TRUE)

\* dm_hash_iter over _saved_vg_hash
RECURSIVE DestroySaved(_, _)
DestroySaved(s, G) ==
    IF G = {} THEN s
    ELSE DestroySaved(IF s.saved[CHOOSE g \in G : TRUE].present
                      THEN _destroy_saved_vg(s, CHOOSE g \in G : TRUE)
                      ELSE s,
                      G \ {CHOOSE g \in G : TRUE})

\* ------------------------------------------------------ the life of a cache
\* a hash table with nothing in it: every key of K finds x
RECURSIVE Wipe(_, _, _)
Wipe(h, K, x) ==
    IF K = {} THEN h
    ELSE Wipe([h EXCEPT ![CHOOSE k \in K : TRUE] = x], K \ {CHOOSE k \in K : TRUE}, x)

\* the global lock that was held when the cache was wiped is taken again
InitLock(s) ==
    IF s.vg_global_lock_held # 0
    THEN [lvmcache_lock_vgname(s, VG_GLOBAL) EXCEPT !.vg_global_lock_held = 0]
    ELSE s

\* the command is that of clvmd: _saved_vg_hash is created with the others
lvmcache_init(s) ==
    InitLock([s EXCEPT !.vgs_locked = 0,
                       !.vginfos = <<>>,
                       !.found = <<>>,
                       !.unused = <<>>,
                       !.vgname_hash = Wipe(@, AllNames, NULL),
                       !.vgid_hash = Wipe(@, AllVgids, NULL),
                       !.pvid_hash = Wipe(@, Pvids, NULL),
                       !.lock_hash = {},
                       !.saved = Wipe(@, AllVgids, NoSavedVg),
                       !.initialized = TRUE])

_lvmcache_destroy_entry(s, i) ==
    IF s.fault THEN s
    ELSE IF Dangling(s, i) THEN [s EXCEPT !.fault = TRUE]
    ELSE [_vginfo_detach_info(s, i) EXCEPT !.dev_pvid[s.info[i].dev] = NoPvid,
                                           !.info[i] = NoInfo]

\* dm_hash_iter over _pvid_hash
RECURSIVE DestroyEntries(_, _)
DestroyEntries(s, P) ==
    IF P = {} THEN s
    ELSE DestroyEntries(IF s.pvid_hash[CHOOSE p \in P : TRUE] = NULL THEN s
                        ELSE _lvmcache_destroy_entry(s, s.pvid_hash[CHOOSE p \in P : TRUE]),
                        P \ {CHOOSE p \in P : TRUE})

\* every vginfo of the chain is freed, the primary first
RECURSIVE _lvmcache_destroy_vgnamelist(_, _)
_lvmcache_destroy_vgnamelist(s, v) ==
    IF v = NULL \/ s.fault THEN s
    ELSE IF ~s.vginfo[v].live THEN [s EXCEPT !.fault = TRUE]
    ELSE _lvmcache_destroy_vgnamelist(_free_vginfo(s, v), s.vginfo[v].next)

\* dm_hash_iter over _vgname_hash
RECURSIVE DestroyNames(_, _)
DestroyNames(s, N) ==
    IF N = {} THEN s
    ELSE DestroyNames(IF s.vgname_hash[CHOOSE n \in N : TRUE] = NULL THEN s
                      ELSE _lvmcache_destroy_vgnamelist(s, s.vgname_hash[CHOOSE n \in N : TRUE]),
                      N \ {CHOOSE n \in N : TRUE})

\* a variant that remembers nothing of the locks
_lvmcache_destroy_lockname_forgetful(s, reset) ==
    [s EXCEPT !.vg_global_lock_held = 0,
              !.lock_hash = {}]

\* the walk over _lock_hash: only VG_GLOBAL may be left locked, and is remembered
_lvmcache_destroy_lockname(s, reset) ==
    [s EXCEPT !.vg_global_lock_held = IF reset THEN 0
                                      ELSE IF VG_GLOBAL \in s.lock_hash THEN 1
                                      ELSE @,
              !.lock_hash = {}]

lvmcache_get_unused_duplicate_devs(s, head) == head \o s.unused

\* the hash tables are destroyed and set to NULL, the lists emptied
DestroyHashes(s, reset) ==
    IF ~s.initialized THEN s
    ELSE [DestroySaved(
              _lvmcache_destroy_lockname(
                  DestroyNames(DestroyEntries([s EXCEPT !.vgid_hash = Wipe(@, AllVgids, NULL)], Pvids),
                               AllNames),
                  reset),
              AllVgids)
            EXCEPT !.pvid_hash = Wipe(@, Pvids, NULL),
                   !.vgname_hash = Wipe(@, AllNames, NULL),
                   !.saved = Wipe(@, AllVgids, NoSavedVg),
                   !.initialized = FALSE]

\* the unused duplicates go to the list of the command
DestroyLists(s) ==
    [s EXCEPT !.vginfos = <<>>,
              !.cmd_unused = lvmcache_get_unused_duplicate_devs(s, <<>>),
              !.unused = <<>>,
              !.found = <<>>,
              !.found_duplicate_pvs = FALSE]

DestroyRetain(s, retain_orphans) ==
    IF s.fault \/ ~retain_orphans THEN s
    ELSE lvmcache_add_orphan_vginfo(lvmcache_init(s), FMT_TEXT_ORPHAN_VG_NAME)

lvmcache_destroy(s, retain_orphans, reset) ==
    DestroyRetain(DestroyLists(DestroyHashes(s, reset)), retain_orphans)

\* ------------------------------------------------------------ the saved VGs
_saved_vg_from_vgid(s, vgid) == s.saved[vgid]

\* the new slot of svg is emptied onto saved_vg_to_free
InvalNew(svg, inval_new) ==
    IF inval_new /\ svg.saved_vg_new # NoVg
    THEN [svg EXCEPT !.saved_vg_to_free = Append(@, svg.saved_vg_new),
                     !.saved_vg_new = NoVg]
    ELSE svg

\* a variant that leaves the old VG in its slot as well
_saved_vg_inval_kept(svg, inval_old, inval_new) ==
    InvalNew(IF inval_old /\ svg.saved_vg_old # NoVg
             THEN [svg EXCEPT !.saved_vg_to_free = Append(@, svg.saved_vg_old)]
             ELSE svg,
             inval_new)

\* the invalidated VGs stay on saved_vg_to_free until the old slot is freed
_saved_vg_inval(svg, inval_old, inval_new) ==
    InvalNew(IF inval_old /\ svg.saved_vg_old # NoVg
             THEN [svg EXCEPT !.saved_vg_to_free = Append(@, svg.saved_vg_old),
                              !.saved_vg_old = NoVg]
             ELSE svg,
             inval_new)

\* the text export_vg_to_buffer writes for a VG: its name, seqno and metadata
export_vg_to_buffer(vg) == <<vg.name, vg.seqno, vg.text>>

\* the VG import_vg_from_config_tree builds from a text: a new object
import_vg_from_config_tree(buf, ref) ==
    [name |-> buf[1], seqno |-> buf[2], text |-> buf[3], saved_in_clvmd |-> 0, ref |-> ref]

\* the copy lvmcache_save_vg keeps of vg
SavedCopy(vg, ref) ==
    [import_vg_from_config_tree(export_vg_to_buffer(vg), ref) EXCEPT !.saved_in_clvmd = 1]

\* a variant that keeps the copy in the other slot
SaveStore_swapped(s, vg, svg, precommitted, ok) ==
    IF ~ok
    THEN [s EXCEPT !.saved[vg.id] = _saved_vg_inval(svg, ~precommitted, precommitted)]
    ELSE IF precommitted
    THEN [s EXCEPT !.saved[vg.id] = [svg EXCEPT !.saved_vg_old = SavedCopy(vg, s.vg_refs + 1)],
                   !.vg_refs = @ + 1]
    ELSE [s EXCEPT !.saved[vg.id] = [svg EXCEPT !.saved_vg_new = SavedCopy(vg, s.vg_refs + 1)],
                   !.vg_refs = @ + 1]

\* lvmcache_save_vg from the export on: ok tells whether export and import succeed
SaveStore(s, vg, svg, precommitted, ok) ==
    IF ~ok
    THEN [s EXCEPT !.saved[vg.id] = _saved_vg_inval(svg, ~precommitted, precommitted)]
    ELSE IF ~precommitted
    THEN [s EXCEPT !.saved[vg.id] = [svg EXCEPT !.saved_vg_old = SavedCopy(vg, s.vg_refs + 1)],
                   !.vg_refs = @ + 1]
    ELSE [s EXCEPT !.saved[vg.id] = [svg EXCEPT !.saved_vg_new = SavedCopy(vg, s.vg_refs + 1)],
                   !.vg_refs = @ + 1]

\* a variant that saves again what it holds already
lvmcache_save_vg_again(s, vg, precommitted, ok) ==
    IF ~_saved_vg_from_vgid(s, vg.id).present
    THEN SaveStore(s, vg, [NoSavedVg EXCEPT !.present = TRUE], precommitted, ok)
    ELSE SaveStore(s, vg,
                   _saved_vg_inval(_saved_vg_from_vgid(s, vg.id), ~precommitted, precommitted),
                   precommitted, ok)

lvmcache_save_vg(s, vg, precommitted, ok) ==
    IF ~_saved_vg_from_vgid(s, vg.id).present
    THEN SaveStore(s, vg, [NoSavedVg EXCEPT !.present = TRUE], precommitted, ok)
    ELSE IF /\ ~precommitted
            /\ _saved_vg_from_vgid(s, vg.id).saved_vg_old # NoVg
            /\ _saved_vg_from_vgid(s, vg.id).saved_vg_old.seqno = vg.seqno
    THEN s
    ELSE IF /\ precommitted
            /\ _saved_vg_from_vgid(s, vg.id).saved_vg_new # NoVg
            /\ _saved_vg_from_vgid(s, vg.id).saved_vg_new.seqno = vg.seqno
    THEN s
    ELSE SaveStore(s, vg,
                   _saved_vg_inval(_saved_vg_from_vgid(s, vg.id), ~precommitted, precommitted),
                   precommitted, ok)

\* the VG lvmcache_get_saved_vg returns, NoVg for NULL
SavedVgOf(svg, precommitted) ==
    IF ~svg.present THEN NoVg
    ELSE IF precommitted THEN svg.saved_vg_new
    ELSE svg.saved_vg_old

\* a variant that invalidates the old VG whatever its seqno
lvmcache_get_saved_vg_eager(s, vgid, precommitted) ==
    IF /\ precommitted
       /\ SavedVgOf(_saved_vg_from_vgid(s, vgid), precommitted) # NoVg
       /\ _saved_vg_from_vgid(s, vgid).saved_vg_old # NoVg
    THEN [s EXCEPT !.saved[vgid] = _saved_vg_inval(@, TRUE, FALSE)]
    ELSE s

\* the state lvmcache_get_saved_vg leaves: an older old VG is invalidated when
\* the new one is handed out
lvmcache_get_saved_vg(s, vgid, precommitted) ==
    IF /\ precommitted
       /\ SavedVgOf(_saved_vg_from_vgid(s, vgid), precommitted) # NoVg
       /\ _saved_vg_from_vgid(s, vgid).saved_vg_old # NoVg
       /\ _saved_vg_from_vgid(s, vgid).saved_vg_old.seqno <
              SavedVgOf(_saved_vg_from_vgid(s, vgid), precommitted).seqno
    THEN [s EXCEPT !.saved[vgid] = _saved_vg_inval(@, TRUE, FALSE)]
    ELSE s

\* a variant that hands out the new VG only
LatestVgOf_new(svg) ==
    IF ~svg.present THEN NoVg
    ELSE svg.saved_vg_new

\* the VG lvmcache_get_saved_vg_latest returns, NoVg for NULL
LatestVgOf(svg) ==
    IF ~svg.present THEN NoVg
    ELSE IF svg.saved_vg_committed # 0 THEN svg.saved_vg_new
    ELSE svg.saved_vg_old

\* the state lvmcache_get_saved_vg_latest leaves
lvmcache_get_saved_vg_latest(s, vgid) ==
    IF /\ _saved_vg_from_vgid(s, vgid).present
       /\ _saved_vg_from_vgid(s, vgid).saved_vg_committed # 0
       /\ _saved_vg_from_vgid(s, vgid).saved_vg_new # NoVg
       /\ _saved_vg_from_vgid(s, vgid).saved_vg_old # NoVg
       /\ _saved_vg_from_vgid(s, vgid).saved_vg_old.seqno <
              _saved_vg_from_vgid(s, vgid).saved_vg_new.seqno
    THEN [s EXCEPT !.saved[vgid] = _saved_vg_inval(@, TRUE, FALSE)]
    ELSE s

\* the saved_vg of the id is marked committed, when there is one
CommitVgid(s, vgid) ==
    IF vgid \in AllVgids /\ _saved_vg_from_vgid(s, vgid).present
    THEN [s EXCEPT !.saved[vgid].saved_vg_committed = 1]
    ELSE s

lvmcache_commit_metadata(s, vgname) ==
    IF lvmcache_vginfo_from_vgname(s, vgname, NoVgid) = NULL THEN s
    ELSE IF ~s.vginfo[lvmcache_vginfo_from_vgname(s, vgname, NoVgid)].live
    THEN [s EXCEPT !.fault = TRUE]
    ELSE CommitVgid(s, s.vginfo[lvmcache_vginfo_from_vgname(s, vgname, NoVgid)].vgid)

lvmcache_drop_saved_vgid(s, vgid) ==
    IF _saved_vg_from_vgid(s, vgid).present
    THEN [s EXCEPT !.saved[vgid] = _saved_vg_inval(@, TRUE, TRUE)]
    ELSE s

_drop_metadata(s, vgname, drop_precommitted) ==
    IF lvmcache_vginfo_from_vgname(s, vgname, NoVgid) = NULL THEN s
    ELSE IF ~s.vginfo[lvmcache_vginfo_from_vgname(s, vgname, NoVgid)].live
    THEN [s EXCEPT !.fault = TRUE]
    ELSE IF ~_saved_vg_from_vgid(s, s.vginfo[lvmcache_vginfo_from_vgname(s, vgname, NoVgid)].vgid).present
    THEN s
    ELSE _saved_vg_free(s, s.vginfo[lvmcache_vginfo_from_vgname(s, vgname, NoVgid)].vgid,
                        ~drop_precommitted, TRUE)

\* lvmcache_drop_metadata without the test of the global lock
lvmcache_drop_metadata_unguarded(s, vgname, drop_precommitted) ==
    IF ~s.initialized THEN s
    ELSE IF vgname = VG_ORPHANS THEN _drop_metadata(s, FMT_TEXT_ORPHAN_VG_NAME, FALSE)
    ELSE _drop_metadata(s, vgname, drop_precommitted)

lvmcache_drop_metadata(s, vgname, drop_precommitted) ==
    IF ~s.initialized THEN s
    ELSE IF lvmcache_vgname_is_locked(s, VG_GLOBAL) THEN s
    ELSE IF vgname = VG_ORPHANS THEN _drop_metadata(s, FMT_TEXT_ORPHAN_VG_NAME, FALSE)
    ELSE _drop_metadata(s, vgname, drop_precommitted)

\* ---------------------------------------------------------------- the calls
\* the (name, id) pairs the callers hand in: an orphan name comes with itself as id
VgPairs == {<<"vg0", "G1">>, <<"vg0", "G2">>, <<"vg1", "G1">>,
            <<FMT_TEXT_ORPHAN_VG_NAME, FMT_TEXT_ORPHAN_VG_NAME>>}
\* the summaries of the vg_read path: no seqno, no mda size, no checksum
ReadSummaries == {AddSummary(p[1], p[2], {}) : p \in VgPairs}
\* the summaries of a scan: what the metadata areas of the devices hold, the
\* values 0 included
MdaSizes == {0, 512}
MdaChecksums == {0, 43690}
ScanSummaries ==
    {[AddSummary("vg0", g, {}) EXCEPT !.seqno = n, !.mda_size = z, !.mda_checksum = c] :
        g \in VgIds, n \in 0..MaxSeqno, z \in MdaSizes, c \in MdaChecksums}
\* the size every PV header states, in bytes
HeaderSize == 4096
LabelOf(pvid, p) == [pvid |-> pvid, vgname |-> p[1], vgid |-> p[2], device_size |-> HeaderSize]
\* what the devices of a scan hold: both PVs are in the one VG on disk
DiskVg == [pv \in Pvids |-> <<"vg0", "G1">>]
DiskLabel(pvid) == LabelOf(pvid, DiskVg[pvid])
\* what the system may answer about the devices while duplicates are resolved:
\* which hold an active LV, which a mounted fs, and their sizes in sectors
Envs(D) == {[has_lv |-> l, has_fs |-> f,
             dev_size |-> [d \in Devs |-> IF d \in b THEN 2 * (HeaderSize \div 512)
                                          ELSE HeaderSize \div 512]] :
               l \in SUBSET D, f \in SUBSET D, b \in SUBSET D}

\* a call that reads freed memory stops the program where it is; a call that
\* needs more room than the bounds give is not taken
Outcome(s) ==
    /\ ~s.oom
    /\ Len(s.found) <= MaxFound
    /\ Install(IF s.fault THEN [St EXCEPT !.fault = TRUE] ELSE s)

Init ==
    /\ dev_pvid = [d \in Devs |-> NoPvid]
    /\ info = [i \in InfoIds |-> NoInfo]
    /\ vginfo = [v \in VginfoIds |-> NoVginfo]
    /\ pvid_hash = [p \in Pvids |-> NULL]
    /\ vgid_hash = [g \in AllVgids |-> NULL]
    /\ vgname_hash = [n \in AllNames |-> NULL]
    /\ vginfos = <<>>
    /\ found_duplicate_devs = <<>>
    /\ unused_duplicate_devs = <<>>
    /\ found_duplicate_pvs = FALSE
    /\ scanning_in_progress = FALSE
    /\ scanned = {}
    /\ lock_hash = {}
    /\ cmd_unused_duplicate_devs = <<>>
    /\ initialized = TRUE
    /\ vgs_locked = 0
    /\ vg_global_lock_held = 0
    /\ suppress_lock_ordering = 0
    /\ dev_size_seqno = 0
    /\ saved_vg_hash = [g \in AllVgids |-> NoSavedVg]
    /\ vg_refs = 0
    /\ vg_released = [r \in VgRefs |-> 0]
    /\ fault = FALSE

Idle == ~fault /\ ~scanning_in_progress /\ initialized

AddOrphanVginfo ==
    /\ Idle
    /\ Outcome(lvmcache_add_orphan_vginfo(St, FMT_TEXT_ORPHAN_VG_NAME))
    /\ UNCHANGED scanned

\* a device is read outside a scan: lvmcache_add of what it holds
Add(pvid, dev, vgname, vgid, crit) ==
    /\ Idle
    /\ Outcome(label_read(St, dev, LabelOf(pvid, <<vgname, vgid>>), crit))
    /\ UNCHANGED scanned

\* the same when the add creates the info and a step of it fails
AddFailed(pvid, dev, vgname, vgid, at) ==
    /\ Idle
    /\ AddLookup(St, pvid, dev) = NULL
    /\ CanAllocInfo(St)
    /\ Outcome(SetDeviceSize(lvmcache_add_failed(St, pvid, dev, vgname, vgid, {}, FALSE, at),
                              LabelOf(pvid, <<vgname, vgid>>)))
    /\ UNCHANGED scanned

Update(i, sm, crit) ==
    /\ Idle
    /\ info[i].live
    /\ Outcome(lvmcache_update_vgname_and_id(St, i, sm, crit))
    /\ UNCHANGED scanned

AddMda(i, ignored) ==
    /\ Idle
    /\ info[i].live
    /\ Outcome(lvmcache_add_mda(St, i, ignored))
    /\ UNCHANGED scanned

DelMdas(i) ==
    /\ Idle
    /\ info[i].live
    /\ Outcome(lvmcache_del_mdas(St, i))
    /\ UNCHANGED scanned

SetIndependentLocation(vgname) ==
    /\ Idle
    /\ Outcome(lvmcache_set_independent_location(St, vgname))
    /\ UNCHANGED scanned

\* the devices hold what DiskLabel tells
RescanVg(vgname, vgid) ==
    /\ Idle
    /\ lvmcache_vginfo_from_vgname(St, vgname, vgid) # NULL
    /\ vginfo[lvmcache_vginfo_from_vgname(St, vgname, vgid)].live
    /\ \E devs \in RescanOrders(St, lvmcache_vginfo_from_vgname(St, vgname, vgid)) :
          Outcome(lvmcache_label_rescan_vg(St, vgname, vgid, devs,
                                           [d \in Devs |-> DiskLabel(dev_pvid[d])], FALSE))
    /\ UNCHANGED scanned

Del(i) ==
    /\ Idle
    /\ info[i].live
    /\ Outcome(lvmcache_del(St, i))
    /\ UNCHANGED scanned

DelDev(dev) ==
    /\ Idle
    /\ Outcome(IF Dangling(St, hash_lookup(pvid_hash, dev_pvid[dev]))
               THEN [St EXCEPT !.fault = TRUE]
               ELSE lvmcache_del_dev(St, dev))
    /\ UNCHANGED scanned

RemoveUnchosenDuplicate(dev) ==
    /\ Idle
    /\ Outcome(lvmcache_remove_unchosen_duplicate(St, dev))
    /\ UNCHANGED scanned

LabelScanBegin ==
    /\ Idle
    /\ Outcome(lvmcache_label_scan_entry(St, TRUE))
    /\ scanned' = {}

\* a scan asked for while one is in progress returns 0 at once
LabelScanNested ==
    /\ ~fault /\ scanning_in_progress
    /\ Outcome(lvmcache_label_scan_entry(St, TRUE))
    /\ UNCHANGED scanned

\* a scan of a command without full filter returns 0 before it scans
LabelScanNoFilter ==
    /\ Idle
    /\ Outcome(lvmcache_label_scan_entry(St, FALSE))
    /\ UNCHANGED scanned

\* an info struct exists in lvmcache for the device
DevHasInfo(s, dev) == \E i \in InfoIds : s.info[i].live /\ s.info[i].dev = dev

\* label_scan goes over every device once, and reads it unless lvmcache holds
\* an info for it
ScanDev(dev, pvid, crit) ==
    /\ ~fault /\ scanning_in_progress
    /\ dev \notin scanned
    /\ Outcome(IF DevHasInfo(St, dev) THEN St
               ELSE label_read(St, dev, DiskLabel(pvid), crit))
    /\ scanned' = scanned \cup {dev}

\* the devices a resolution compares
Involved ==
    SeqSet(found_duplicate_devs) \cup
    {info[i].dev : i \in {j \in InfoIds : info[j].live /\ found_duplicate_devs # <<>>}}

LabelScanEnd(env, crit) ==
    /\ ~fault /\ scanning_in_progress
    /\ Outcome(label_scan_end(St, env, [d \in Devs |-> DiskLabel(dev_pvid[d])], crit))
    /\ scanned' = {}

LabelScanEndFailed(env, crit) ==
    /\ ~fault /\ scanning_in_progress
    /\ Outcome(label_scan_end_failed(St, env, [d \in Devs |-> DiskLabel(dev_pvid[d])], crit))
    /\ scanned' = {}

\* a call that would take a counter or a list past its bound is not taken
Bounded(s) ==
    /\ s.vgs_locked \in (0 - MaxLocked)..MaxLocked
    /\ s.dev_size_seqno <= MaxBumps
    /\ \A g \in AllVgids : Len(s.saved[g].saved_vg_to_free) <= MaxToFree
    /\ s.vg_refs <= MaxRefs
    /\ Outcome(s)

Lock(vgname) ==
    /\ Idle
    /\ Bounded(lvmcache_lock_vgname(St, vgname))
    /\ UNCHANGED scanned

Unlock(vgname) ==
    /\ Idle
    /\ Bounded(lvmcache_unlock_vgname(St, vgname))
    /\ UNCHANGED scanned

LockOrdering(enable) ==
    /\ Idle
    /\ Outcome(lvmcache_lock_ordering(St, enable))
    /\ UNCHANGED scanned

\* the check reads the registry and returns
VerifyLockOrder(vgname) ==
    /\ ~fault /\ ~scanning_in_progress
    /\ lvmcache_verify_lock_order(St, vgname) \in BOOLEAN
    /\ UNCHANGED vars

\* lvmcache_destroy is safe to call on a cache that is not initialized
Destroy(retain_orphans, reset) ==
    /\ ~fault /\ ~scanning_in_progress
    /\ Outcome(lvmcache_destroy(St, retain_orphans, reset))
    /\ UNCHANGED scanned

\* lvmcache_init after the cache was destroyed
CacheInit ==
    /\ ~fault /\ ~scanning_in_progress /\ ~initialized
    /\ Outcome(lvmcache_init(St))
    /\ UNCHANGED scanned

\* the VGs clvmd saves
SavedVgs == {[id |-> g, name |-> "vg0", seqno |-> n, text |-> "t0"] : g \in VgIds, n \in 1..MaxSeqno}

SaveVg(vg, precommitted, ok) ==
    /\ Idle
    /\ Bounded(lvmcache_save_vg(St, vg, precommitted, ok))
    /\ UNCHANGED scanned

GetSavedVg(vgid, precommitted) ==
    /\ Idle
    /\ Bounded(lvmcache_get_saved_vg(St, vgid, precommitted))
    /\ UNCHANGED scanned

DropSavedVgid(vgid) ==
    /\ Idle
    /\ Bounded(lvmcache_drop_saved_vgid(St, vgid))
    /\ UNCHANGED scanned

CommitMetadata(vgname) ==
    /\ Idle
    /\ Outcome(lvmcache_commit_metadata(St, vgname))
    /\ UNCHANGED scanned

GetSavedVgLatest(vgid) ==
    /\ Idle
    /\ Bounded(lvmcache_get_saved_vg_latest(St, vgid))
    /\ UNCHANGED scanned

DropMetadata(vgname, drop_precommitted) ==
    /\ ~fault /\ ~scanning_in_progress
    /\ Outcome(lvmcache_drop_metadata(St, vgname, drop_precommitted))
    /\ UNCHANGED scanned

\* critical_section() is asked only for an orphan name
CritAnswers(vgname) == IF is_orphan_vg(vgname) THEN BOOLEAN ELSE {FALSE}

Next ==
    \/ AddOrphanVginfo
    \/ \E pvid \in Pvids, dev \in Devs, p \in VgPairs :
          \E crit \in CritAnswers(p[1]) : Add(pvid, dev, p[1], p[2], crit)
    \/ \E pvid \in Pvids, dev \in Devs, p \in VgPairs, at \in FailPoints :
          AddFailed(pvid, dev, p[1], p[2], at)
    \/ \E i \in InfoIds, sm \in ReadSummaries :
          \E crit \in CritAnswers(sm.vgname) : Update(i, sm, crit)
    \/ \E i \in InfoIds : Del(i)
    \/ \E dev \in Devs : DelDev(dev)
    \/ \E dev \in Devs : RemoveUnchosenDuplicate(dev)
    \/ LabelScanBegin
    \/ LabelScanNested
    \/ LabelScanNoFilter
    \/ \E dev \in Devs, pvid \in Pvids : ScanDev(dev, pvid, FALSE)
    \/ \E env \in Envs(Involved) : LabelScanEnd(env, FALSE)
    \/ \E env \in Envs(Involved) : LabelScanEndFailed(env, FALSE)
    \/ \E vgname \in LockNames : Lock(vgname)
    \/ \E vgname \in LockNames : Unlock(vgname)
    \/ \E enable \in BOOLEAN : LockOrdering(enable)
    \/ \E vgname \in LockNames : VerifyLockOrder(vgname)
    \/ \E retain_orphans \in BOOLEAN, reset \in BOOLEAN : Destroy(retain_orphans, reset)
    \/ CacheInit
    \/ \E vg \in SavedVgs, precommitted \in BOOLEAN, ok \in BOOLEAN : SaveVg(vg, precommitted, ok)
    \/ \E vgid \in VgIds, precommitted \in BOOLEAN : GetSavedVg(vgid, precommitted)
    \/ \E vgid \in VgIds : DropSavedVgid(vgid)
    \/ \E vgname \in VgNames : CommitMetadata(vgname)
    \/ \E vgid \in VgIds : GetSavedVgLatest(vgid)
    \/ \E vgname \in LockNames, drop_precommitted \in BOOLEAN :
          DropMetadata(vgname, drop_precommitted)

Spec == Init /\ [][Next]_vars

\* the cache without scans: devices are read one at a time, VGs are read, and
\* entries are dropped
CacheDevs == {"devA", "devB"}
CachePairs == {<<"vg0", "G1">>, <<"vg0", "G2">>,
               <<FMT_TEXT_ORPHAN_VG_NAME, FMT_TEXT_ORPHAN_VG_NAME>>}
NextCache ==
    \/ AddOrphanVginfo
    \/ \E pvid \in Pvids, dev \in CacheDevs, p \in CachePairs :
          \E crit \in CritAnswers(p[1]) : Add(pvid, dev, p[1], p[2], crit)
    \/ \E i \in InfoIds, p \in CachePairs :
          \E crit \in CritAnswers(p[1]) : Update(i, AddSummary(p[1], p[2], {}), crit)
    \/ \E i \in InfoIds : Del(i)
    \/ \E dev \in CacheDevs : DelDev(dev)

SpecCache == Init /\ [][NextCache]_vars

\* the scans: every device is read with what it holds on disk; the devices are
\* of the size the header states and hold no fs, some hold an active LV
ScanEnvs(D) == {[has_lv |-> l, has_fs |-> {}, dev_size |-> [d \in Devs |-> HeaderSize \div 512]] :
                   l \in SUBSET D}
NextScan ==
    \/ \E pvid \in Pvids, dev \in Devs :
          Add(pvid, dev, DiskVg[pvid][1], DiskVg[pvid][2], FALSE)
    \/ \E dev \in Devs : DelDev(dev)
    \/ \E dev \in Devs : RemoveUnchosenDuplicate(dev)
    \/ LabelScanBegin
    \/ LabelScanNested
    \/ \E dev \in Devs, pvid \in Pvids : ScanDev(dev, pvid, FALSE)
    \/ \E env \in ScanEnvs(Involved) : LabelScanEnd(env, FALSE)

SpecScan == Init /\ [][NextScan]_vars

\* the lock registry by itself: the names are locked and unlocked in any
\* order, nested locks and unlocks of names not locked included, the order
\* check is switched off and on, and the cache is destroyed and set up again
NextLock ==
    \/ \E vgname \in LockNames : Lock(vgname)
    \/ \E vgname \in LockNames : Unlock(vgname)
    \/ \E enable \in BOOLEAN : LockOrdering(enable)
    \/ \E vgname \in LockNames : VerifyLockOrder(vgname)
    \/ \E retain_orphans \in BOOLEAN, reset \in BOOLEAN : Destroy(retain_orphans, reset)
    \/ CacheInit

SpecLock == Init /\ [][NextLock]_vars

\* the locks and the cache: two PVs are read into VGs of one name or into the
\* orphan VG and dropped again while the VG and the orphans are locked and
\* unlocked
LockPairs == {<<"vg0", "G1">>, <<"vg0", "G2">>,
              <<FMT_TEXT_ORPHAN_VG_NAME, FMT_TEXT_ORPHAN_VG_NAME>>}
MemberLockNames == {VG_ORPHANS, "vg0"}
NextMembers ==
    \/ \E p \in LockPairs : Add("P1", "devA", p[1], p[2], FALSE)
    \/ \E p \in LockPairs : Add("P2", "devB", p[1], p[2], FALSE)
    \/ \E dev \in CacheDevs : DelDev(dev)
    \/ \E vgname \in MemberLockNames : Lock(vgname)
    \/ \E vgname \in MemberLockNames : Unlock(vgname)

SpecMembers == Init /\ [][NextMembers]_vars

\* a command that fills the cache by scans, destroys it and fills it again: one
\* PV is on every device and devices are dropped between the scans; the
\* devices hold no fs, some hold an active LV and some are not of the size the
\* PV header states
CmdEnvs(D) == {[has_lv |-> l, has_fs |-> {},
                dev_size |-> [d \in Devs |-> IF d \in b THEN 2 * (HeaderSize \div 512)
                                             ELSE HeaderSize \div 512]] :
                  l \in SUBSET D, b \in SUBSET D}
NextCmd ==
    \/ LabelScanBegin
    \/ \E dev \in Devs : ScanDev(dev, "P1", FALSE)
    \/ \E env \in CmdEnvs(Involved) : LabelScanEnd(env, FALSE)
    \/ \E dev \in Devs : DelDev(dev)
    \/ \E retain_orphans \in BOOLEAN, reset \in BOOLEAN : Destroy(retain_orphans, reset)
    \/ CacheInit

SpecCmd == Init /\ [][NextCmd]_vars

\* scans of one PV on several devices that succeed, fail or are asked for
\* while a scan is in progress
NextGuard ==
    \/ LabelScanBegin
    \/ LabelScanNested
    \/ LabelScanNoFilter
    \/ \E dev \in Devs : ScanDev(dev, "P1", FALSE)
    \/ \E env \in ScanEnvs(Involved) : LabelScanEnd(env, FALSE)
    \/ \E env \in ScanEnvs(Involved) : LabelScanEndFailed(env, FALSE)
    \/ \E dev \in Devs : DelDev(dev)

SpecGuard == Init /\ [][NextGuard]_vars

\* PVs with and without metadata areas are found in a VG and as orphans,
\* within a critical section and outside
OrphanSummary == AddSummary(FMT_TEXT_ORPHAN_VG_NAME, FMT_TEXT_ORPHAN_VG_NAME, {})
NextOrphan ==
    \/ AddOrphanVginfo
    \/ \E vgid \in VgIds : Add("P1", "devA", "vg0", vgid, FALSE)
    \/ Add("P2", "devB", "vg0", "G1", FALSE)
    \/ \E i \in InfoIds, ignored \in BOOLEAN : AddMda(i, ignored)
    \/ \E i \in InfoIds : DelMdas(i)
    \/ \E i \in InfoIds, crit \in BOOLEAN : Update(i, OrphanSummary, crit)
    \/ \E dev \in CacheDevs : DelDev(dev)

SpecOrphan == Init /\ [][NextOrphan]_vars

\* PVs are found in the VG the devices hold and in a VG they held before,
\* the VG is read from files or not, and is scanned again
NextRescan ==
    \/ \E pvid \in Pvids, dev \in CacheDevs, vgid \in VgIds : Add(pvid, dev, "vg0", vgid, FALSE)
    \/ SetIndependentLocation("vg0")
    \/ \E vgid \in VgIds : RescanVg("vg0", vgid)
    \/ \E dev \in CacheDevs : DelDev(dev)

SpecRescan == Init /\ [][NextRescan]_vars

\* every name is locked and unlocked, the orphan VG of the text format
\* under its own name as well
AnyLockNames == LockNames \cup {FMT_TEXT_ORPHAN_VG_NAME}
NextAnyLock ==
    \/ AddOrphanVginfo
    \/ Add("P1", "devA", "vg0", "G1", FALSE)
    \/ \E vgname \in AnyLockNames : Lock(vgname)
    \/ \E vgname \in AnyLockNames : Unlock(vgname)

SpecAnyLock == Init /\ [][NextAnyLock]_vars

\* the summaries of VGs of one name: exported or not, made on this host, on
\* another one or on none that is known
NameHosts == {NoHost, ThisHost, OtherHost}
NameStatuses == {{}, {EXPORTED_VG}}
NameSummaries ==
    {[AddSummary("vg0", g, st) EXCEPT !.creation_host = h, !.seqno = 1] :
        g \in VgIds, st \in NameStatuses, h \in NameHosts}

\* two PVs move between VGs of one name that differ in id, status and host
NextNames ==
    \/ \E vgid \in VgIds : Add("P1", "devA", "vg0", vgid, FALSE)
    \/ Add("P2", "devB", "vg1", "G2", FALSE)
    \/ \E i \in InfoIds, sm \in NameSummaries : Update(i, sm, FALSE)
    \/ \E dev \in CacheDevs : DelDev(dev)

SpecNames == Init /\ [][NextNames]_vars

\* PVs are added, with and without a failing allocation or insertion, and
\* their devices dropped
NextUnwind ==
    \/ \E p \in CachePairs : Add("P1", "devA", p[1], p[2], FALSE)
    \/ \E vgid \in VgIds, at \in FailPoints : AddFailed("P2", "devB", "vg0", vgid, at)
    \/ \E dev \in CacheDevs : DelDev(dev)

SpecUnwind == Init /\ [][NextUnwind]_vars

\* clvmd saves the VG at suspend, hands it out at resume and drops it
NextSaved ==
    \/ \E vgid \in VgIds : Add("P1", "devA", "vg0", vgid, FALSE)
    \/ \E vg \in SavedVgs, precommitted \in BOOLEAN, ok \in BOOLEAN : SaveVg(vg, precommitted, ok)
    \/ \E vgid \in VgIds, precommitted \in BOOLEAN : GetSavedVg(vgid, precommitted)
    \/ \E vgid \in VgIds : DropSavedVgid(vgid)
    \/ \E vgname \in VgNames : CommitMetadata(vgname)

SpecSaved == Init /\ [][NextSaved]_vars

\* the whole life of the saved VGs of one VG and of the orphan VG: saved,
\* handed out, committed, dropped under or without the global lock, destroyed
BufferVgs ==
    {[id |-> "G1", name |-> "vg0", seqno |-> n, text |-> x] : n \in 1..MaxSeqno, x \in Texts}
    \cup {[id |-> FMT_TEXT_ORPHAN_VG_NAME, name |-> FMT_TEXT_ORPHAN_VG_NAME,
           seqno |-> 1, text |-> "t0"]}
BufferIds == {"G1", FMT_TEXT_ORPHAN_VG_NAME}
DropNames == {"vg0", FMT_TEXT_ORPHAN_VG_NAME, VG_ORPHANS}

NextBuffer ==
    \/ Add("P1", "devA", "vg0", "G1", FALSE)
    \/ AddOrphanVginfo
    \/ \E vg \in BufferVgs, precommitted \in BOOLEAN, ok \in BOOLEAN : SaveVg(vg, precommitted, ok)
    \/ \E vgid \in BufferIds, precommitted \in BOOLEAN : GetSavedVg(vgid, precommitted)
    \/ \E vgid \in BufferIds : GetSavedVgLatest(vgid)
    \/ \E vgid \in BufferIds : DropSavedVgid(vgid)
    \/ CommitMetadata("vg0")
    \/ \E vgname \in DropNames, drop_precommitted \in BOOLEAN :
          DropMetadata(vgname, drop_precommitted)
    \/ Lock(VG_GLOBAL)
    \/ Unlock(VG_GLOBAL)
    \/ \E reset \in BOOLEAN : Destroy(TRUE, reset)

SpecBuffer == Init /\ [][NextBuffer]_vars

\* two PVs of the VG vg0 are read and their metadata areas summarised, in any
\* order and with any contents
NextSummary ==
    \/ \E vgid \in VgIds : Add("P1", "devA", "vg0", vgid, FALSE)
    \/ \E vgid \in VgIds : Add("P2", "devB", "vg0", vgid, FALSE)
    \/ \E i \in InfoIds, sm \in ScanSummaries : Update(i, sm, FALSE)
    \/ \E dev \in CacheDevs : DelDev(dev)

SpecSummary == Init /\ [][NextSummary]_vars

\* ---------------------------------------------------------------- the claims
LiveInfos == {i \in InfoIds : info[i].live}
LiveVginfos == {v \in VginfoIds : vginfo[v].live}
PvidOf(i) == dev_pvid[info[i].dev]
by_pvid(pvid) == lvmcache_info_from_pvid(St, pvid, NoDev)
by_vgid(vgid) == lvmcache_vginfo_from_vgid(St, vgid)
NameChain(vgname) == Chain(St, hash_lookup(vgname_hash, vgname))
Count(q, x) == Cardinality({k \in 1..Len(q) : q[k] = x})

\* C1: every cached PVInfo whose device carries a non-empty PV id is the entry
\* the PV-id index returns for that id.
C1_PvidIndex ==
    \A i \in LiveInfos : PvidOf(i) # NoPvid => by_pvid(PvidOf(i)) = i

\* C2: every live VGInfo is the entry the VG-id index returns for its vgid, and
\* the alias chain from the name-index entry for its name holds it exactly once.
C2_VgIndexes ==
    \A v \in LiveVginfos :
        /\ by_vgid(vginfo[v].vgid) = v
        /\ Count(NameChain(vginfo[v].vgname), v) = 1

\* C3: for every PVInfo i and VGInfo v, i.vginfo = v exactly when i is on
\* v.infos, and i is on the infos list of at most one VGInfo.
C3_Membership ==
    \A i \in LiveInfos :
        /\ \A v \in VginfoIds : (info[i].vginfo = v) <=> (i \in vginfo[v].infos)
        /\ Cardinality({v \in VginfoIds : i \in vginfo[v].infos}) <= 1
        /\ info[i].vginfo # NULL => vginfo[info[i].vginfo].live

\* a PVInfo has moved from one VGInfo to another that both are still there
C3_Witness ==
    \E i, j \in LiveInfos :
        /\ i # j
        /\ info[i].vginfo # NULL /\ info[j].vginfo # NULL
        /\ info[i].vginfo # info[j].vginfo
        /\ i \in vginfo[info[i].vginfo].infos

\* every VGInfo the indexes, the chains, the list of VGInfos or a PVInfo lead to
Reachable ==
    {vgname_hash[n] : n \in AllNames} \cup {vgid_hash[g] : g \in AllVgids}
    \cup {vginfo[v].next : v \in LiveVginfos} \cup SeqSet(vginfos)
    \cup {info[i].vginfo : i \in LiveInfos}

\* C4: a VGInfo with an empty infos list is an orphan VGInfo: a VGInfo that is
\* freed is reachable by nothing, and an orphan VGInfo is never freed.
C4_EmptyIsOrphan ==
    /\ [](/\ \A v \in LiveVginfos : vginfo[v].infos = {} => is_orphan_vg(vginfo[v].vgname)
          /\ \A v \in Reachable \ {NULL} : vginfo[v].live)
    /\ [][\A v \in LiveVginfos :
            is_orphan_vg(vginfo[v].vgname)
            => vginfo'[v].live /\ vginfo'[v].vgname = vginfo[v].vgname]_vars

\* the orphan VGInfo is there without a PVInfo, next to the VGInfo of a VG
C4_Witness ==
    /\ \E v \in LiveVginfos : is_orphan_vg(vginfo[v].vgname) /\ vginfo[v].infos = {}
    /\ \E v \in LiveVginfos : ~is_orphan_vg(vginfo[v].vgname)
    /\ \E v \in VginfoIds : ~vginfo[v].live /\ \E w \in LiveVginfos : w > v

\* add finds the PVInfo the PV-id index holds for pvid on another device
OnOtherDevice(pvid, dev) ==
    LET i == hash_lookup(pvid_hash, pvid)
    IN  i # NULL /\ info[i].live /\ info[i].dev # dev

\* C6: add of a pvid whose PVInfo is on a different device returns NULL, sets
\* found_duplicate_pvs and changes nothing of the registry: no index, no
\* PVInfo, no VGInfo and no membership list.
C6_DupAddFrame ==
    [][\A pvid \in Pvids, dev \in CacheDevs :
        OnOtherDevice(pvid, dev) => \A p \in CachePairs : \A crit \in CritAnswers(p[1]) :
          Add(pvid, dev, p[1], p[2], crit)
          => /\ lvmcache_add(St, pvid, dev, p[1], p[2], {}, crit).ret = NULL
             /\ found_duplicate_pvs'
             /\ pvid_hash' = pvid_hash /\ info' = info
             /\ vginfo' = vginfo /\ vginfos' = vginfos
             /\ vgid_hash' = vgid_hash /\ vgname_hash' = vgname_hash]_vars

\* two devices were set aside as duplicates of PVs that stay on their devices
C6_Witness ==
    /\ found_duplicate_pvs
    /\ Len(found_duplicate_devs) = 2
    /\ \A d \in SeqSet(found_duplicate_devs) : OnOtherDevice(dev_pvid[d], d)

Fresh(pvid, dev) ==
    /\ hash_lookup(pvid_hash, pvid) = NULL
    /\ \A i \in LiveInfos : PvidOf(i) # pvid /\ info[i].dev # dev

\* C8: add of a pvid no PVInfo carries on a device without a PVInfo makes one
\* PVInfo on that device, found by the pvid, member of the VGInfo of the name
\* given, the name among the VG names, nothing recorded as a duplicate; and a
\* device never handed to add is in no PVInfo and on no list of duplicates.
C8_FreshAdd ==
    /\ [][\A pvid \in Pvids, dev \in CacheDevs :
          Fresh(pvid, dev) => \A p \in CachePairs : \A crit \in CritAnswers(p[1]) :
            Add(pvid, dev, p[1], p[2], crit)
            => /\ by_pvid(pvid)' # NULL
               /\ info'[by_pvid(pvid)'].live
               /\ info'[by_pvid(pvid)'].dev = dev
               /\ Cardinality({j \in InfoIds : info'[j].live /\ info'[j].dev = dev}) = 1
               /\ info'[by_pvid(pvid)'].vginfo # NULL
               /\ vginfo'[info'[by_pvid(pvid)'].vginfo].vgname = p[1]
               /\ by_pvid(pvid)' \in vginfo'[info'[by_pvid(pvid)'].vginfo].infos
               /\ InSeq(lvmcache_get_vgnames(St, TRUE)', p[1])
               /\ found_duplicate_devs' = found_duplicate_devs
               /\ unused_duplicate_devs' = unused_duplicate_devs
               /\ found_duplicate_pvs' = found_duplicate_pvs]_vars
    /\ [](\A d \in Devs \ CacheDevs :
            /\ \A i \in LiveInfos : info[i].dev # d
            /\ ~InSeq(found_duplicate_devs, d) /\ ~InSeq(unused_duplicate_devs, d))

\* C9: when live VGInfos share a name, the lookup by (name, id) returns each
\* for its own id, the lookup by name alone returns the one the name index
\* holds, and the lookup with an id no chain member has returns nothing.
C9_AliasLookups ==
    \A n \in AllNames :
        LET S == {v \in LiveVginfos : vginfo[v].vgname = n}
        IN  Cardinality(S) >= 2 =>
              /\ \A v \in S : lvmcache_vginfo_from_vgname(St, n, vginfo[v].vgid) = v
              /\ lvmcache_vginfo_from_vgname(St, n, NoVgid) = vgname_hash[n]
              /\ vgname_hash[n] \in S
              /\ \A g \in AllVgids :
                    (\A v \in S : vginfo[v].vgid # g)
                    => lvmcache_vginfo_from_vgname(St, n, g) = NULL

\* the device the registry holds for pvid, NoDev when it holds none
RegistryDev(pvid) ==
    LET i == hash_lookup(pvid_hash, pvid)
    IN  IF i # NULL /\ info[i].live THEN info[i].dev ELSE NoDev

\* the devices the cache holds: in a PVInfo or on a list of duplicates
Known == {info[i].dev : i \in LiveInfos} \cup SeqSet(found_duplicate_devs)
         \cup SeqSet(unused_duplicate_devs)

\* C5: no PV id is bound to two devices in the registry, every other device
\* that carries a registered PV id is on _unused_duplicate_devs, and no device
\* is the registry's device for its PV id and on _unused_duplicate_devs.  The
\* second part is read in its weakest form: only the devices the cache holds
\* count, and a duplicate no scan has resolved yet may be on
\* _found_duplicate_devs.
C5_DuplicateSets ==
    ~scanning_in_progress =>
        /\ \A pv \in Pvids : Cardinality({info[i].dev : i \in {j \in LiveInfos : PvidOf(j) = pv}}) <= 1
        /\ \A d \in Known :
              (dev_pvid[d] # NoPvid /\ RegistryDev(dev_pvid[d]) \notin {NoDev, d})
              => InSeq(unused_duplicate_devs, d) \/ InSeq(found_duplicate_devs, d)
        /\ \A d \in Devs :
              ~(dev_pvid[d] # NoPvid /\ RegistryDev(dev_pvid[d]) = d
                /\ InSeq(unused_duplicate_devs, d))

\* the PV ids of the duplicates found, their candidates and the resolver's winner
FoundPvids == {dev_pvid[d] : d \in SeqSet(found_duplicate_devs)}
Candidates(pv) == SeqKeep(found_duplicate_devs, {d \in Devs : dev_pvid[d] = pv})
Winner(env, pv) ==
    Compare(St, env, hash_lookup(pvid_hash, pv), Candidates(pv), 1,
            [dev1 |-> RegistryDev(pv), alt |-> 1]).dev1
Others(env, pv) == (SeqSet(Candidates(pv)) \cup {RegistryDev(pv)}) \ {Winner(env, pv)}

\* the devices the md filter leaves on the list: those whose PV the registry
\* does not hold on an md device after the scan
Kept(D) == {d \in D : RegistryDev(dev_pvid[d])' = NoDev
                      \/ MajorOf[RegistryDev(dev_pvid[d])'] # md_major}

\* C10: when a label scan that found duplicates completes, for every PV id
\* with duplicates that the registry holds, the registry's device is the
\* resolver's winner and the previous device was displaced exactly when the
\* winner differs from it; _found_duplicate_devs is empty and
\* _unused_duplicate_devs holds exactly the other devices of this resolution
\* (those the md filter drops afterwards left aside).
C10_ScanResolution ==
    [][\A env \in ScanEnvs(Involved) :
          (found_duplicate_devs # <<>> /\ LabelScanEnd(env, FALSE) /\ ~fault')
          => /\ \A pv \in FoundPvids :
                  RegistryDev(pv) # NoDev
                  => /\ RegistryDev(pv)' = Winner(env, pv)
                     /\ (\A i \in InfoIds : ~(info'[i].live /\ info'[i].dev = RegistryDev(pv)))
                        <=> (Winner(env, pv) # RegistryDev(pv))
             /\ found_duplicate_devs' = <<>>
             /\ SeqSet(unused_duplicate_devs') =
                    Kept(UNION {Others(env, pv) : pv \in {q \in FoundPvids : RegistryDev(q) # NoDev}})
             /\ Len(unused_duplicate_devs') = Cardinality(SeqSet(unused_duplicate_devs'))]_vars

\* the devices a resolution compares for pv: the registry's device and the
\* duplicates found
Group(pv) == SeqSet(Candidates(pv)) \cup {RegistryDev(pv)}

\* the device r, the outcome of _choose_preferred_devs, prefers for pv: the
\* one it hands back to be read again, else the one the registry holds
Chosen(r, pv) ==
    IF \E k \in 1..Len(r.add) : dev_pvid[r.add[k]] = pv
    THEN r.add[CHOOSE k \in 1..Len(r.add) : dev_pvid[r.add[k]] = pv]
    ELSE RegistryDev(pv)

\* no device of the group of pv replaces dev under the ladder
Unbeaten(env, pv, dev) ==
    /\ dev \in Group(pv)
    /\ \A d \in Group(pv) \ {dev} : ~Prefer2(St, env, hash_lookup(pvid_hash, pv), dev, d)

OnCmdList(d) == _dev_in_device_list(d, cmd_unused_duplicate_devs)

\* the first part of C12: lvmcache_destroy leaves on
\* cmd->unused_duplicate_devs the devices that were on _unused_duplicate_devs
C12_StickyMove ==
    [][\A retain_orphans \in BOOLEAN, reset \in BOOLEAN :
          (Destroy(retain_orphans, reset) /\ ~fault')
          => cmd_unused_duplicate_devs' = unused_duplicate_devs]_vars

\* the second part of C12, comparison by comparison: of two devices of one PV
\* of which one is on the list of the command and the other is not, the one on
\* the list loses whichever of the two is the preferred one so far and
\* whatever the system answers about them
C12_StickyLadder ==
    (scanning_in_progress /\ ~fault /\ found_duplicate_devs # <<>>)
    => \A env \in CmdEnvs(Involved) : \A pv \in FoundPvids :
          RegistryDev(pv) # NoDev
          => \A x \in Group(pv), y \in Group(pv) :
                (OnCmdList(x) /\ ~OnCmdList(y))
                => /\ Prefer2(St, env, hash_lookup(pvid_hash, pv), x, y)
                   /\ ~Prefer2(St, env, hash_lookup(pvid_hash, pv), y, x)

\* C12: in the cache that follows lvmcache_destroy the devices that were on
\* _unused_duplicate_devs lose against those that were not, so that the same
\* device is preferred again: whenever a scan has found duplicates of a PV the
\* registry holds and one device of the group is not on the list of the
\* command, the device _choose_preferred_devs prefers is not on that list,
\* whatever the order of the scan and whatever the system answers.
C12_StickyChoice ==
    (scanning_in_progress /\ ~fault /\ found_duplicate_devs # <<>>)
    => \A env \in CmdEnvs(Involved) : \A pv \in FoundPvids :
          (RegistryDev(pv) # NoDev /\ \E y \in Group(pv) : ~OnCmdList(y))
          => ~OnCmdList(Chosen(_choose_preferred_devs(St, env), pv))

\* the order of the lock names as the specification words it
precedes(a, b) ==
    \/ a = VG_GLOBAL
    \/ /\ b # VG_GLOBAL
       /\ ~is_orphan_vg(a)
       /\ (is_orphan_vg(b) \/ strcmp_lt(a, b))

\* the names a caller may ask about
AskedNames == LockNames \cup {FMT_TEXT_ORPHAN_VG_NAME}

\* C13: lvmcache_verify_lock_order(new) fails exactly when the order check is
\* on and some name that is locked does not precede new; with "vg0" alone
\* locked it succeeds for "vg1", with "vg1" alone locked it fails for "vg0";
\* and the call leaves the lock registry as it is.
C13_VerifyOrder ==
    /\ [](\A new \in AskedNames :
             lvmcache_verify_lock_order(St, new)
             <=> ~(suppress_lock_ordering = 0 /\ \E k \in lock_hash : ~precedes(k, new)))
    /\ []((suppress_lock_ordering = 0 /\ lock_hash = {"vg0"})
             => lvmcache_verify_lock_order(St, "vg1"))
    /\ []((suppress_lock_ordering = 0 /\ lock_hash = {"vg1"})
             => ~lvmcache_verify_lock_order(St, "vg0"))
    /\ [][\A new \in LockNames :
             VerifyLockOrder(new) => UNCHANGED <<lock_hash, vgs_locked, suppress_lock_ordering>>]_vars

\* the check is on, "vg1" is locked and "vg0" is refused, the orphans are not
C13_Witness ==
    /\ suppress_lock_ordering = 0 /\ initialized
    /\ "vg1" \in lock_hash
    /\ ~lvmcache_verify_lock_order(St, "vg0")
    /\ lvmcache_verify_lock_order(St, VG_ORPHANS)

\* C14: while the order check is on, a lock of a name that is not locked and
\* that some locked name does not precede fails: the name is not added to the
\* lock index, so that the names locked are in order as they were acquired.
C14_OrderedAcquire ==
    [][\A vgname \in LockNames \ lock_hash :
          (/\ Lock(vgname)
           /\ suppress_lock_ordering = 0
           /\ \E k \in lock_hash : ~precedes(k, vgname))
          => vgname \notin lock_hash']_vars

\* the state after lvmcache_lock_vgname and lvmcache_unlock_vgname of vgname
LockUnlock(vgname) == lvmcache_unlock_vgname(lvmcache_lock_vgname(St, vgname), vgname)

\* the pair bumps the device-size seqno
Bumps(s) == s.dev_size_seqno # dev_size_seqno

\* the statement of C15 as it was made: for every name that is not locked, a
\* lock and an unlock of the name leave the locked names as they were, and
\* bump the device-size seqno exactly when the name is not VG_GLOBAL
C15_PairBumps ==
    (initialized /\ ~fault)
    => \A vgname \in LockNames \ lock_hash :
          /\ LockUnlock(vgname).lock_hash = lock_hash
          /\ Bumps(LockUnlock(vgname)) <=> (vgname # VG_GLOBAL)

\* C15: for every name that is not locked, a lock and an unlock of the name
\* leave the locked names and _vgs_locked as they were, and bump the
\* device-size seqno, by one, exactly when the name is not VG_GLOBAL and
\* _vgs_locked was zero before the pair.
C15_PairBumpsAtZero ==
    (initialized /\ ~fault)
    => \A vgname \in LockNames \ lock_hash :
          /\ LockUnlock(vgname).lock_hash = lock_hash
          /\ LockUnlock(vgname).vgs_locked = vgs_locked
          /\ Bumps(LockUnlock(vgname)) <=> (vgname # VG_GLOBAL /\ vgs_locked = 0)
          /\ Bumps(LockUnlock(vgname)) => LockUnlock(vgname).dev_size_seqno = dev_size_seqno + 1

\* a pair has bumped the seqno, and "vg0" is locked now: a pair on "vg1" from
\* here does not bump it
C15_Witness ==
    /\ initialized /\ ~fault
    /\ dev_size_seqno = 1
    /\ lock_hash = {"vg0"} /\ vgs_locked = 1
    /\ ~Bumps(LockUnlock("vg1"))

\* the info carries CACHE_LOCKED
CacheLocked(i) == (info[i].status \div CACHE_LOCKED) % 2 = 1

\* C16: in every state each PVInfo that belongs to a VGInfo carries
\* CACHE_LOCKED exactly when the name of that VGInfo is locked, the members of
\* the VGInfos behind the primary on an alias chain and those of the orphan
\* VGInfo included.
C16_LockedMirrors ==
    ~fault =>
        \A i \in LiveInfos :
            (info[i].vginfo # NULL /\ vginfo[info[i].vginfo].live)
            => (CacheLocked(i)
                <=> lvmcache_vgname_is_locked(St, vginfo[info[i].vginfo].vgname))

\* C17: in every state the answer of lvmcache_vgname_is_locked for an orphan
\* name is its answer for VG_ORPHANS; a lock of VG_ORPHANS makes it true for
\* every orphan name, and it stays true until VG_ORPHANS is unlocked or the
\* cache destroyed.
C17_OrphanAlias ==
    /\ [](\A n \in OrphanNames :
             lvmcache_vgname_is_locked(St, n) <=> lvmcache_vgname_is_locked(St, VG_ORPHANS))
    /\ [][Lock(VG_ORPHANS)
          => \A n \in OrphanNames : lvmcache_vgname_is_locked(St, n)']_vars
    /\ [][(lvmcache_vgname_is_locked(St, FMT_TEXT_ORPHAN_VG_NAME)
           /\ ~lvmcache_vgname_is_locked(St, FMT_TEXT_ORPHAN_VG_NAME)')
          => \/ Unlock(VG_ORPHANS)
             \/ \E retain_orphans \in BOOLEAN, reset \in BOOLEAN :
                   Destroy(retain_orphans, reset)]_vars

\* VG_ORPHANS is locked with other names, and the orphan VG of the text
\* format is found locked
C17_Witness ==
    /\ initialized /\ ~fault
    /\ {VG_ORPHANS, "vg0"} \subseteq lock_hash
    /\ lvmcache_vgname_is_locked(St, FMT_TEXT_ORPHAN_VG_NAME)

Observable(s) ==
    <<s.initialized, s.dev_pvid, s.info, s.vginfo, s.pvid_hash, s.vgid_hash, s.vgname_hash,
      s.vginfos, s.found, s.unused, s.found_duplicate_pvs, s.lock_hash, s.vgs_locked,
      s.vg_global_lock_held, s.cmd_unused, s.saved, s.fault>>

\* C19: from every state, two calls of lvmcache_destroy in a row with the same
\* arguments leave what one call leaves: the same registry, the same locks and
\* _vg_global_lock_held, and the same list of unused duplicates on the command.
C19_DestroyTwice ==
    (~fault /\ ~scanning_in_progress)
    => \A retain_orphans \in BOOLEAN, reset \in BOOLEAN :
          Observable(lvmcache_destroy(lvmcache_destroy(St, retain_orphans, reset),
                                      retain_orphans, reset))
          = Observable(lvmcache_destroy(St, retain_orphans, reset))

\* the slot of svg a save with precommitted writes
SlotOf(svg, precommitted) == IF precommitted THEN svg.saved_vg_new ELSE svg.saved_vg_old

\* C20: a lvmcache_save_vg of a VG whose seqno is that of the VG the slot it
\* selects holds already changes nothing, whether the export would succeed or
\* not: both slots, saved_vg_to_free and saved_vg_committed are as before.
C20_SameSeqnoNoop ==
    (initialized /\ ~fault)
    => \A vg \in SavedVgs, precommitted \in BOOLEAN, ok \in BOOLEAN :
          (/\ saved_vg_hash[vg.id].present
           /\ SlotOf(saved_vg_hash[vg.id], precommitted) # NoVg
           /\ SlotOf(saved_vg_hash[vg.id], precommitted).seqno = vg.seqno)
          => lvmcache_save_vg(St, vg, precommitted, ok) = St

\* a saved_vg that is committed holds an old and a new VG of seqnos 1 and 2
\* and an invalidated one
C20_Witness ==
    /\ saved_vg_hash["G1"].present
    /\ saved_vg_hash["G1"].saved_vg_committed = 1
    /\ saved_vg_hash["G1"].saved_vg_old.seqno = 1
    /\ saved_vg_hash["G1"].saved_vg_new.seqno = 2
    /\ saved_vg_hash["G1"].saved_vg_to_free # <<>>

\* what lvmcache_get_saved_vg hands out right after a lvmcache_save_vg of vg
\* whose export and import succeed
SaveGet(vg, precommitted) ==
    SavedVgOf(_saved_vg_from_vgid(lvmcache_get_saved_vg(lvmcache_save_vg(St, vg, precommitted, TRUE),
                                                        vg.id, precommitted),
                                  vg.id),
              precommitted)

\* the slot of the VG id holds a VG of that seqno already
HoldsSeqno(vg, precommitted) ==
    /\ saved_vg_hash[vg.id].present
    /\ SlotOf(saved_vg_hash[vg.id], precommitted) # NoVg
    /\ SlotOf(saved_vg_hash[vg.id], precommitted).seqno = vg.seqno

C22_Promotion ==
    (initialized /\ ~fault)
    => \A vgid \in BufferIds :
          (/\ saved_vg_hash[vgid].present
           /\ saved_vg_hash[vgid].saved_vg_committed # 0
           /\ saved_vg_hash[vgid].saved_vg_old # NoVg
           /\ saved_vg_hash[vgid].saved_vg_new # NoVg
           /\ saved_vg_hash[vgid].saved_vg_old.seqno < saved_vg_hash[vgid].saved_vg_new.seqno)
          => /\ LatestVgOf(saved_vg_hash[vgid]) = saved_vg_hash[vgid].saved_vg_new
             /\ SavedVgOf(_saved_vg_from_vgid(lvmcache_get_saved_vg_latest(St, vgid), vgid), FALSE)
                   = saved_vg_hash[vgid].saved_vg_new
             /\ InSeq(_saved_vg_from_vgid(lvmcache_get_saved_vg_latest(St, vgid), vgid).saved_vg_to_free,
                      saved_vg_hash[vgid].saved_vg_old)

\* the VG id a name resolves to for the saved VGs, NoVgid when it has no vginfo
SavedIdOf(vgname) ==
    IF lvmcache_vginfo_from_vgname(St, vgname, NoVgid) = NULL THEN NoVgid
    ELSE vginfo[lvmcache_vginfo_from_vgname(St, vgname, NoVgid)].vgid

\* C23: lvmcache_get_saved_vg_latest hands out the new VG of a saved_vg that
\* is committed and the old VG of one that is not, NULL when that slot is
\* empty whatever the other slot holds; lvmcache_commit_metadata sets
\* saved_vg_committed of the saved_vg of the VG the name resolves to and
\* changes nothing else.
C23_LatestAndCommit ==
    /\ \A vgid \in BufferIds :
          LatestVgOf(saved_vg_hash[vgid])
          = IF ~saved_vg_hash[vgid].present THEN NoVg
            ELSE IF saved_vg_hash[vgid].saved_vg_committed = 1
            THEN saved_vg_hash[vgid].saved_vg_new
            ELSE saved_vg_hash[vgid].saved_vg_old
    /\ (initialized /\ ~fault)
       => lvmcache_commit_metadata(St, "vg0")
          = IF SavedIdOf("vg0") # NoVgid /\ saved_vg_hash[SavedIdOf("vg0")].present
            THEN [St EXCEPT !.saved[SavedIdOf("vg0")].saved_vg_committed = 1]
            ELSE St

\* a saved_vg that is committed has an old VG and no new one:
\* lvmcache_get_saved_vg_latest finds nothing
C23_Witness ==
    /\ initialized /\ ~fault
    /\ saved_vg_hash["G1"].present
    /\ saved_vg_hash["G1"].saved_vg_committed = 1
    /\ saved_vg_hash["G1"].saved_vg_old # NoVg
    /\ saved_vg_hash["G1"].saved_vg_new = NoVg
    /\ LatestVgOf(saved_vg_hash["G1"]) = NoVg

\* the VGs a drop of the saved_vg of vgid releases: the new one, and with both
\* the old one and those on saved_vg_to_free
Freed(vgid, both) ==
    ({saved_vg_hash[vgid].saved_vg_new.ref}
     \cup (IF both
           THEN {saved_vg_hash[vgid].saved_vg_old.ref}
                \cup {saved_vg_hash[vgid].saved_vg_to_free[k].ref :
                         k \in 1..Len(saved_vg_hash[vgid].saved_vg_to_free)}
           ELSE {})) \ {0}

\* the saved VGs after a drop that releases the new VG, and with both the rest
Dropped(s, vgid, both) ==
    s = [St EXCEPT !.saved[vgid].saved_vg_new = NoVg,
                   !.saved[vgid].saved_vg_old = IF both THEN NoVg ELSE @,
                   !.saved[vgid].saved_vg_to_free = IF both THEN <<>> ELSE @,
                   !.released = [r \in VgRefs |->
                                   vg_released[r] + IF r \in Freed(vgid, both) THEN 1 ELSE 0]]

\* the name whose saved_vg a lvmcache_drop_metadata of vgname looks for
DropTarget(vgname) == IF vgname = VG_ORPHANS THEN FMT_TEXT_ORPHAN_VG_NAME ELSE vgname

HasSavedVg(vgname) ==
    SavedIdOf(DropTarget(vgname)) # NoVgid /\ saved_vg_hash[SavedIdOf(DropTarget(vgname))].present

\* C24 as stated: a lvmcache_drop_metadata of a name that has a saved_vg
\* releases with drop_precommitted the new VG only and leaves the old VG and
\* saved_vg_to_free as they are, without it the old VG, the new VG and every
\* VG on saved_vg_to_free, and for VG_ORPHANS both slots whatever
\* drop_precommitted is.
C24_Drop ==
    (initialized /\ ~fault)
    => \A vgname \in DropNames, drop_precommitted \in BOOLEAN :
          HasSavedVg(vgname)
          => Dropped(lvmcache_drop_metadata(St, vgname, drop_precommitted),
                     SavedIdOf(DropTarget(vgname)), vgname = VG_ORPHANS \/ ~drop_precommitted)

\* C24: the same while VG_GLOBAL is not locked; a lvmcache_drop_metadata
\* called while VG_GLOBAL is locked releases nothing and leaves every saved_vg
\* as it is.  Only VG_ORPHANS stands for both slots: the orphan name of the
\* format is dropped as any other name.
C24_DropUnlessGlobal ==
    (initialized /\ ~fault)
    => \A vgname \in DropNames, drop_precommitted \in BOOLEAN :
          HasSavedVg(vgname)
          => IF VG_GLOBAL \in lock_hash
             THEN lvmcache_drop_metadata(St, vgname, drop_precommitted) = St
             ELSE Dropped(lvmcache_drop_metadata(St, vgname, drop_precommitted),
                          SavedIdOf(DropTarget(vgname)),
                          vgname = VG_ORPHANS \/ ~drop_precommitted)

\* the new VG of G1 was released while its old VG and an invalidated VG stay
C24_Witness ==
    /\ initialized /\ ~fault
    /\ saved_vg_hash["G1"].saved_vg_new = NoVg
    /\ saved_vg_hash["G1"].saved_vg_old # NoVg
    /\ saved_vg_hash["G1"].saved_vg_to_free # <<>>
    /\ \E r \in VgRefs : vg_released[r] = 1
    /\ VG_GLOBAL \in lock_hash

\* the VGs a saved_vg holds, slot by slot and then saved_vg_to_free
Held(svg) ==
    (IF svg.saved_vg_old # NoVg THEN <<svg.saved_vg_old.ref>> ELSE <<>>)
    \o (IF svg.saved_vg_new # NoVg THEN <<svg.saved_vg_new.ref>> ELSE <<>>)
    \o [k \in 1..Len(svg.saved_vg_to_free) |-> svg.saved_vg_to_free[k].ref]

\* every VG the saved VGs of the state held is still held after the call
KeepsAll(s) ==
    /\ s.released = vg_released
    /\ \A vgid \in BufferIds : SeqSet(Held(saved_vg_hash[vgid])) \subseteq SeqSet(Held(s.saved[vgid]))

Differs(v, sm) ==
    \/ sm.seqno # vginfo[v].seqno
    \/ sm.mda_size # vginfo[v].mda_size
    \/ sm.mda_checksum # vginfo[v].mda_checksum

\* the summaries of the VG of the vginfo that carry a seqno, a size or a checksum
SummariesOf(v) ==
    {sm \in ScanSummaries :
        /\ sm.vgname = vginfo[v].vgname /\ sm.vgid = vginfo[v].vgid
        /\ (sm.seqno # 0 \/ sm.mda_size # 0 \/ sm.mda_checksum # 0)}

\* what the claim says of the state r a mismatching update of i leaves
Flagged(r, i, v) ==
    /\ r.ret = 1 /\ ~r.fault
    /\ r.vginfo[v].live
    /\ r.vginfo[v].scan_summary_mismatch = 1
    /\ r.vginfo[v].seqno = vginfo[v].seqno
    /\ r.vginfo[v].mda_size = vginfo[v].mda_size
    /\ r.vginfo[v].mda_checksum = vginfo[v].mda_checksum
    /\ r.info[i].live /\ r.info[i].vginfo = v
    /\ r.vginfo[v].infos = vginfo[v].infos
    /\ lvmcache_scan_mismatch(r, vginfo[v].vgname, vginfo[v].vgid) = 1

\* C26: when the vginfo of a PV has recorded a seqno and a metadata size from
\* an earlier device, lvmcache_update_vgname_and_id with a summary of that VG
\* that differs in seqno, size or checksum sets scan_summary_mismatch, keeps
\* what was recorded, keeps the info and every other member in the vginfo and
\* returns 1; lvmcache_scan_mismatch then answers 1.
C26_MismatchFlagged ==
    ~fault
    => \A i \in LiveInfos :
          (/\ info[i].vginfo # NULL
           /\ vginfo[info[i].vginfo].live
           /\ vginfo[info[i].vginfo].seqno # 0
           /\ vginfo[info[i].vginfo].mda_size # 0)
          => \A sm \in SummariesOf(info[i].vginfo) :
                Differs(info[i].vginfo, sm)
                => Flagged(lvmcache_update_vgname_and_id(St, i, sm, FALSE), i, info[i].vginfo)

\* both PVs are in the VG, whose vginfo recorded seqno 1 and is flagged
C26_Witness ==
    /\ ~fault
    /\ \E v \in LiveVginfos :
          /\ Cardinality(vginfo[v].infos) = 2
          /\ vginfo[v].seqno = 1
          /\ vginfo[v].mda_size # 0
          /\ vginfo[v].scan_summary_mismatch = 1
          /\ lvmcache_scan_mismatch(St, "vg0", vginfo[v].vgid) = 1

\* scan_summary_mismatch of v after the summary a for the info i, then the
\* summary b for the info j
AfterBoth(v, i, a, j, b) ==
    lvmcache_update_vgname_and_id(lvmcache_update_vgname_and_id(St, i, a, FALSE), j, b, FALSE)
        .vginfo[v].scan_summary_mismatch

\* C27: when two PVs of a VG deliver a summary each, scan_summary_mismatch of
\* the vginfo is the same whichever of the two is delivered first, summaries
\* with 0 for the seqno or the size included.
C27_OrderIndependent ==
    ~fault
    => \A v \in LiveVginfos, i \in LiveInfos, j \in LiveInfos :
          (i # j /\ info[i].vginfo = v /\ info[j].vginfo = v)
          => \A a \in SummariesOf(v), b \in SummariesOf(v) :
                AfterBoth(v, i, a, j, b) = AfterBoth(v, j, b, i, a)

\* the scan has returned with the guard cleared: the next request scans
Accepted(r) ==
    r.fault \/ (~r.scanning /\ lvmcache_label_scan_entry(r, TRUE) = label_scan_begin(r))

\* what the devices hold when the scan reads them again
DiskLabels == [d \in Devs |-> DiskLabel(dev_pvid[d])]

\* C28: while a scan is in progress lvmcache_label_scan returns 0 and leaves
\* the registry, the duplicate lists and the guard as they are; the scan in
\* progress returns with the guard cleared, with 1 and with 0 when the scan
\* of a format fails, as does a scan that finds no full filter, and the next
\* request scans.
C28_ScanGuard ==
    ~fault
    => /\ scanning_in_progress
          => /\ \A full_filter \in BOOLEAN :
                   lvmcache_label_scan_entry(St, full_filter) = [St EXCEPT !.ret = 0]
             /\ \A env \in ScanEnvs(Involved) :
                   /\ Accepted(label_scan_end(St, env, DiskLabels, FALSE))
                   /\ Accepted(label_scan_end_failed(St, env, DiskLabels, FALSE))
                   /\ label_scan_end_failed(St, env, DiskLabels, FALSE).fault
                      \/ label_scan_end_failed(St, env, DiskLabels, FALSE).ret = 0
       /\ (~scanning_in_progress /\ initialized)
          => /\ lvmcache_label_scan_entry(St, FALSE) = [St EXCEPT !.ret = 0]
             /\ Accepted(lvmcache_label_scan_entry(St, FALSE))

\* a scan is in progress and has found a duplicate, after an earlier scan
\* that left an unused duplicate
C28_Witness ==
    /\ ~fault /\ scanning_in_progress
    /\ scanned # {}
    /\ found_duplicate_devs # <<>>
    /\ unused_duplicate_devs # <<>>

\* nothing refers to the info i that the add of pvid on dev created, and every
\* vginfo the add created has members and is in _vgid_hash
Unwound(r, i, pvid, dev) ==
    /\ \A p \in Pvids : r.pvid_hash[p] # i
    /\ \A v \in VginfoIds : r.vginfo[v].live => i \notin r.vginfo[v].infos
    /\ r.dev_pvid[dev] # pvid
    /\ \A v \in VginfoIds :
          (r.vginfo[v].live /\ ~vginfo[v].live)
          => /\ r.vginfo[v].infos # {}
             /\ r.vginfo[v].vgid # NoVgid
             /\ r.vgid_hash[r.vginfo[v].vgid] = v

\* C29: when lvmcache_add creates an info and returns NULL because an
\* allocation or a dm_hash_insert failed, no entry of _pvid_hash, no infos
\* list of a vginfo and no dev->pvid refers to that info, and no vginfo made
\* by the add is left without members or out of _vgid_hash.
C29_AddUnwinds ==
    (initialized /\ ~fault /\ ~scanning_in_progress)
    => \A pvid \in Pvids, dev \in CacheDevs, p \in CachePairs, at \in FailPoints \ {"info"} :
          (/\ AddLookup(St, pvid, dev) = NULL
           /\ CanAllocInfo(St)
           /\ lvmcache_add_failed(St, pvid, dev, p[1], p[2], {}, FALSE, at).ret = NULL)
          => Unwound(lvmcache_add_failed(St, pvid, dev, p[1], p[2], {}, FALSE, at),
                     AllocInfo(St), pvid, dev)

\* every answer of the system about the devices of D: which are used by an
\* LV, which hold a mounted filesystem, which have the size the PV states
LadderEnvs(D) == {[has_lv |-> l, has_fs |-> f,
                   dev_size |-> [d \in Devs |-> IF d \in b THEN 2 * (HeaderSize \div 512)
                                                ELSE HeaderSize \div 512]] :
                     l \in SUBSET D, f \in SUBSET D, b \in SUBSET D}

\* a device is on one of the two lists of unused duplicates
OnEitherList(d) ==
    _dev_in_device_list(d, unused_duplicate_devs) \/ _dev_in_device_list(d, cmd_unused_duplicate_devs)

\* the priority ladder, first deciding rung wins: TRUE when the candidate
\* replaces the current winner
PriorityLadder(unpref1, unpref2, lv1, lv2, size1, size2, fs1, fs2, dm1, dm2, sub1, sub2) ==
    IF unpref1 # unpref2 THEN unpref1
    ELSE IF lv1 # lv2 THEN lv2
    ELSE IF size1 # size2 THEN size2
    ELSE IF fs1 # fs2 THEN fs2
    ELSE IF dm1 # dm2 THEN dm2
    ELSE IF sub1 # sub2 THEN sub2
    ELSE FALSE

LadderOf(env, i, x, y) ==
    PriorityLadder(OnEitherList(x), OnEitherList(y),
                   x \in env.has_lv, y \in env.has_lv,
                   env.dev_size[x] = info[i].device_size \div 512,
                   env.dev_size[y] = info[i].device_size \div 512,
                   x \in env.has_fs, y \in env.has_fs,
                   dm_is_dm_major(MajorOf[x]), dm_is_dm_major(MajorOf[y]),
                   dev_subsystem_part_major(x), dev_subsystem_part_major(y))

\* C30: for every pair of a current winner and a candidate of one PV and
\* whatever the system answers about them, the comparison of
\* _choose_preferred_devs decides as the priority ladder does, first deciding
\* rung winning: a device on either list of unused duplicates loses against
\* one on neither, then used by an LV, then the size the PV states, then a
\* mounted filesystem, then a dm major, then a subsystem major, else the
\* current winner stays.
C30_PriorityLadder ==
    (scanning_in_progress /\ ~fault /\ found_duplicate_devs # <<>>)
    => \A env \in LadderEnvs(Involved) : \A pv \in FoundPvids :
          RegistryDev(pv) # NoDev
          => \A x \in Group(pv) : \A y \in Group(pv) \ {x} :
                Prefer2(St, env, hash_lookup(pvid_hash, pv), x, y)
                = LadderOf(env, hash_lookup(pvid_hash, pv), x, y)

\* the state before _filter_duplicate_devs: the devices dropped from the
\* registry have joined _unused_duplicate_devs
BeforeFilter(env) ==
    LET r == _choose_preferred_devs(St, env)
        s == RereadDevs(DropDevs(r.cache, r.del), r.add, [d \in Devs |-> DiskLabel(dev_pvid[d])], FALSE)
    IN  [s EXCEPT !.unused = @ \o r.del]

\* C31: after the filter that ends a scan with duplicates no device on
\* _unused_duplicate_devs has the md major, every device the filter took off
\* the list has the md major itself, and the devices of any other major
\* that were on the list stay on it.
C31_MdFiltered ==
    (scanning_in_progress /\ ~fault /\ found_duplicate_devs # <<>>)
    => \A env \in ScanEnvs(Involved) :
          (~BeforeFilter(env).fault /\ ~BeforeFilter(env).oom
           /\ ~_filter_duplicate_devs(BeforeFilter(env)).fault)
          => /\ \A d \in SeqSet(_filter_duplicate_devs(BeforeFilter(env)).unused) :
                   MajorOf[d] # md_major
             /\ \A d \in SeqSet(BeforeFilter(env).unused) :
                   d \notin SeqSet(_filter_duplicate_devs(BeforeFilter(env)).unused)
                   <=> MajorOf[d] = md_major

\* the order of two VGs of one name: TRUE when the new VG is to be the
\* primary: not exported before exported, then made on this host, then made
\* on a known host, else the one that was there
NewIsPrimary(primary_status, primary_host, vgstatus, creation_host) ==
    IF (EXPORTED_VG \in primary_status) # (EXPORTED_VG \in vgstatus)
    THEN EXPORTED_VG \in primary_status
    ELSE IF (primary_host = ThisHost) # (creation_host = ThisHost)
    THEN creation_host = ThisHost
    ELSE IF (primary_host = NoHost) # (creation_host = NoHost)
    THEN primary_host = NoHost
    ELSE FALSE

\* r is the state after the vginfo new was made for the name of primary
Inserted(r, primary, new, new_wins) ==
    IF new_wins
    THEN /\ r.vgname_hash[r.vginfo[new].vgname] = new
         /\ Chain(r, new) = <<new>> \o Chain(St, primary)
    ELSE /\ r.vgname_hash[r.vginfo[new].vgname] = primary
         /\ Chain(r, primary) = Chain(St, primary) \o <<new>>

\* C32: when a vginfo is made for a name that has a primary vginfo, the new
\* one becomes the primary exactly when it is not exported and the primary
\* is, else when it was made on this host and the primary was not, else when
\* it has a creation host and the primary has none; the winner is in
\* _vgname_hash, a winning new vginfo is followed by the old chain and a
\* losing one is the last of the chain.
C32_PrimaryOrder ==
    (initialized /\ ~fault /\ CanAllocVginfo(St))
    => \A vgname \in VgNames, vgstatus \in NameStatuses, creation_host \in NameHosts :
          hash_lookup(vgname_hash, vgname) # NULL
          => Inserted(AddVginfo(St, AllocVginfo(St), vgname, "G3", vgstatus, creation_host),
                      vgname_hash[vgname], AllocVginfo(St),
                      NewIsPrimary(vginfo[vgname_hash[vgname]].status,
                                   vginfo[vgname_hash[vgname]].creation_host,
                                   vgstatus, creation_host))

\* two VGs are named vg0, the one made last is the primary, and it replaced
\* an exported one
C32_Witness ==
    /\ ~fault
    /\ hash_lookup(vgname_hash, "vg0") # NULL
    /\ Len(Chain(St, vgname_hash["vg0"])) = 2
    /\ vginfos[1] = vgname_hash["vg0"]
    /\ EXPORTED_VG \in vginfo[vginfo[vgname_hash["vg0"]].next].status

\* the old VG of svg is older than its new VG
OldIsOlder(svg) ==
    /\ svg.saved_vg_new # NoVg
    /\ svg.saved_vg_old # NoVg
    /\ svg.saved_vg_old.seqno < svg.saved_vg_new.seqno

\* r is the state after a get for vgid that handed out the VG out: the old VG
\* went to saved_vg_to_free when the new one was handed out and is newer, and
\* nothing else has changed
GetFrame(r, vgid, out) ==
    IF out # NoVg /\ out = saved_vg_hash[vgid].saved_vg_new /\ OldIsOlder(saved_vg_hash[vgid])
    THEN r = [St EXCEPT !.saved[vgid].saved_vg_old = NoVg,
                        !.saved[vgid].saved_vg_to_free =
                            Append(@, saved_vg_hash[vgid].saved_vg_old)]
    ELSE r = St

MdalessMember(i) ==
    /\ info[i].live
    /\ info[i].vginfo # NULL
    /\ vginfo[info[i].vginfo].live
    /\ i \in vginfo[info[i].vginfo].infos
    /\ ~is_orphan_vg(vginfo[info[i].vginfo].vgname)
    /\ mdas_empty_or_ignored(info[i].mdas)

\* r is the state in which the info i has left its VG for the orphan VG
MovedToOrphans(r, i) ==
    /\ ~r.fault
    /\ r.ret = 1
    /\ r.info[i].live
    /\ r.info[i].vginfo # NULL
    /\ r.vginfo[r.info[i].vginfo].live
    /\ r.vginfo[r.info[i].vginfo].vgname = FMT_TEXT_ORPHAN_VG_NAME
    /\ r.vgname_hash[FMT_TEXT_ORPHAN_VG_NAME] = r.info[i].vginfo
    /\ \A v \in VginfoIds : (r.vginfo[v].live /\ i \in r.vginfo[v].infos) <=> v = r.info[i].vginfo

\* C34: lvmcache_update_vgname_and_id with the summary of an orphan VG, for an
\* info without metadata area in use that is a member of a VG that is no
\* orphan VG, returns 1 and changes nothing within a critical section;
\* outside a critical section the info leaves its VG and joins the orphan
\* vginfo.
C34_OrphanMoveSuppressed ==
    (initialized /\ ~fault)
    => \A i \in InfoIds :
          MdalessMember(i)
          => /\ lvmcache_update_vgname_and_id(St, i, OrphanSummary, TRUE)
                = [St EXCEPT !.ret = 1]
             /\ ~lvmcache_update_vgname_and_id(St, i, OrphanSummary, FALSE).oom
                => MovedToOrphans(lvmcache_update_vgname_and_id(St, i, OrphanSummary, FALSE), i)

\* within a critical section an orphan summary was read for a PV without
\* metadata area in use that other PVs hold in vg0: it is still a member
C34_Witness ==
    /\ ~fault
    /\ \E i \in InfoIds : MdalessMember(i) /\ info[i].dev = "devA"
    /\ \E j \in InfoIds : info[j].live /\ info[j].mdas = 1 /\ info[j].dev = "devB"
    /\ hash_lookup(vgname_hash, FMT_TEXT_ORPHAN_VG_NAME) # NULL

\* what the devices hold when they are read again
RescanLabels == [d \in Devs |-> DiskLabel(dev_pvid[d])]

\* no info of I is left in the registry of the state s
InfosGone(s, I) ==
    \A i \in I :
       /\ ~s.info[i].live
       /\ \A p \in Pvids : s.pvid_hash[p] # i
       /\ \A v \in VginfoIds : s.vginfo[v].live => i \notin s.vginfo[v].infos

\* r is the state after the rescan of the VG of the name and id
RescanResult(r, vgname, vgid) ==
    /\ ~r.fault
    /\ lvmcache_vginfo_from_vgname(r, vgname, vgid) = NULL => r.ret = 0

\* the rescan of the vginfo v, found for the name and id
RescanOf(v, vgname, vgid) ==
    IF vginfo[v].independent_metadata_location # 0
    THEN \A devs \in RescanOrders(St, v) :
            lvmcache_label_rescan_vg(St, vgname, vgid, devs, RescanLabels, FALSE)
            = [St EXCEPT !.ret = 1]
    ELSE /\ InfosGone(RescanDel(St, vginfo[v].infos), vginfo[v].infos)
         /\ \A devs \in RescanOrders(St, v) :
               ~lvmcache_label_rescan_vg(St, vgname, vgid, devs, RescanLabels, FALSE).oom
               => RescanResult(lvmcache_label_rescan_vg(St, vgname, vgid, devs, RescanLabels, FALSE),
                               vgname, vgid)

\* C35: lvmcache_label_rescan_vg of a VG whose vginfo has
\* independent_metadata_location set returns 1 and leaves the vginfo, its
\* infos and the four hash tables as they were; for any other VG of the
\* cache it takes every info of the VG out of the registry before the devices
\* are read again, and returns 0 when the VG is not found after that.
C35_Rescan ==
    (initialized /\ ~fault /\ ~scanning_in_progress)
    => \A vgid \in VgIds :
          (/\ lvmcache_vginfo_from_vgname(St, "vg0", vgid) # NULL
           /\ vginfo[lvmcache_vginfo_from_vgname(St, "vg0", vgid)].live
           /\ \A i \in vginfo[lvmcache_vginfo_from_vgname(St, "vg0", vgid)].infos : info[i].live)
          => RescanOf(lvmcache_vginfo_from_vgname(St, "vg0", vgid), "vg0", vgid)

\* C36: after any sequence of lvmcache_init, lvmcache_lock_vgname,
\* lvmcache_unlock_vgname and lvmcache_destroy, nested locks, unlocks of
\* names that are not held and a destroy without init included,
\* lvmcache_vgs_locked() is the number of names other than VG_GLOBAL that
\* _lock_hash holds, and is never negative.
C36_LockCount ==
    ~fault
    => /\ lvmcache_vgs_locked(St) = Cardinality(lock_hash \ {VG_GLOBAL})
       /\ lvmcache_vgs_locked(St) >= 0

\* s2 is the state after lvmcache_commit_metadata, which left s1, and a
\* lvmcache_save_vg of a precommitted VG that made a new copy: the copy is
\* not the VG lvmcache_get_saved_vg_latest hands out
NotLatest(s1, s2, vgid) ==
    s2.vg_refs # s1.vg_refs => LatestVgOf(_saved_vg_from_vgid(s2, vgid)).ref # s2.vg_refs

\* C37: lvmcache_get_saved_vg_latest never hands out a precommitted VG that
\* was saved after the last lvmcache_commit_metadata of its VG: after a
\* commit, the VG of another seqno that lvmcache_save_vg then keeps as
\* precommitted is not the one handed out as long as no commit follows.
C37_LatestCommitted ==
    (initialized /\ ~fault)
    => \A vg \in BufferVgs :
          vg.id = "G1"
          => NotLatest(lvmcache_commit_metadata(St, "vg0"),
                       lvmcache_save_vg(lvmcache_commit_metadata(St, "vg0"), vg, TRUE, TRUE),
                       "G1")

\* C38: for every name, VG_GLOBAL, VG_ORPHANS and the orphan VG name of a
\* format included, lvmcache_vgname_is_locked(name) holds from the return
\* of lvmcache_lock_vgname(name) until lvmcache_unlock_vgname(name), and
\* does not hold after the unlock of a name that was locked once.
C38_LockedUntilUnlock ==
    /\ [](\A n \in AnyLockNames :
            (initialized /\ ~fault)
            => /\ lvmcache_vgname_is_locked(lvmcache_lock_vgname(St, n), n)
               /\ n \notin lock_hash
                  => ~lvmcache_vgname_is_locked(
                         lvmcache_unlock_vgname(lvmcache_lock_vgname(St, n), n), n))
    /\ [][\A n \in AnyLockNames :
            (n \in lock_hash /\ lvmcache_vgname_is_locked(St, n)
             /\ ~lvmcache_vgname_is_locked(St, n)')
            => Unlock(n)]_vars

\* C39: while VG_GLOBAL is held in the lock registry, and when the saved-VG
\* table does not exist, lvmcache_drop_metadata(vgname, drop_precommitted)
\* changes nothing in the saved VGs: both slots, the committed flag and the
\* list of VGs to free of every entry are as before.
C39_DropUnderGlobalLock ==
    \A vgname \in DropNames, drop_precommitted \in BOOLEAN :
        (~fault /\ (~initialized \/ lvmcache_vgname_is_locked(St, VG_GLOBAL)))
        => /\ lvmcache_drop_metadata(St, vgname, drop_precommitted).saved = saved_vg_hash
           /\ ~lvmcache_drop_metadata(St, vgname, drop_precommitted).fault

\* the global lock is held, vg0 is in the cache and its saved_vg holds a VG
\* in each slot: without the lock the drop would release them
C39_Witness ==
    /\ ~fault /\ initialized
    /\ lvmcache_vgname_is_locked(St, VG_GLOBAL)
    /\ lvmcache_vginfo_from_vgname(St, "vg0", NoVgid) # NULL
    /\ saved_vg_hash["G1"].present
    /\ saved_vg_hash["G1"].saved_vg_old # NoVg
    /\ saved_vg_hash["G1"].saved_vg_new # NoVg
    /\ lvmcache_drop_metadata_unguarded(St, "vg0", TRUE).saved # saved_vg_hash

\* the info j is in the state r what it is now: the entry of its PV id, on
\* the same device, a member of the same VG
SameInfo(r, j) ==
    /\ lvmcache_info_from_pvid(r, PvidOf(j), NoDev) = j
    /\ r.info[j].live
    /\ r.info[j].dev = info[j].dev
    /\ r.info[j].vginfo = info[j].vginfo
    /\ info[j].vginfo # NULL
       => /\ r.vginfo[info[j].vginfo].live
          /\ r.vginfo[info[j].vginfo].vgname = vginfo[info[j].vginfo].vgname
          /\ r.vginfo[info[j].vginfo].vgid = vginfo[info[j].vginfo].vgid
          /\ j \in r.vginfo[info[j].vginfo].infos

\* r is the state after lvmcache_del(i)
DelResult(r, i) ==
    /\ ~r.fault
    /\ \A j \in LiveInfos \ {i} : by_pvid(PvidOf(j)) = j => SameInfo(r, j)
    /\ InfosGone(r, {i})

\* C40: lvmcache_del(info) removes exactly that PVInfo: every other PVInfo is
\* still returned by the lookup of its own PV id, with the same device and
\* the same VG, and no entry of the registry refers to the removed PVInfo.
C40_DelExactlyOne ==
    \A i \in LiveInfos : (~fault /\ initialized) => DelResult(lvmcache_del(St, i), i)

====
